---- MODULE Spec2Model ----
(***************************************************************************)
(* greg-ng: the identity pool (src/util/id_pool.rs), the websocket         *)
(* dispatcher and connection sessions (src/api/websocket_v1.rs) and the    *)
(* status notifier's connection counter (src/main.rs).                     *)
(*                                                                         *)
(* The specifications share the pool operators:                            *)
(*   PoolSpec  the pool driven directly, by arbitrary request_id /         *)
(*             release_id calls with any id argument (as the unit tests    *)
(*             of id_pool.rs drive it);                                    *)
(*   Spec      the server: connections are accepted, each session runs     *)
(*             handle_connection / connection_loop and drains;             *)
(*   FairSpec  Spec with a scheduler that runs every enabled drain step.   *)
(*                                                                         *)
(* u64 values are written as integers; a value that wrapped below zero is  *)
(* written as its negative residue (-1 stands for u64::MAX = 2^64 - 1).    *)
(***************************************************************************)
EXTENDS Integers, Sequences, FiniteSets, TLC

VARIABLES
    pool,             \* IdPool: [max_id, free_ids, id_count, watch, version,
                      \*          receiver_version, panicked]
    hist,             \* PoolSpec: the calls made on the pool so far, with their results
    pc,               \* per connection: where its handler / session task stands
    channel_id,       \* per connection: the id websocket_handler obtained (0: none)
    hs_fail,          \* per connection: the handshake step whose failure panicked the task
    initial_state,    \* per connection: InitialState.connections while it is held (-1: none)
    cause,            \* per connection: what ended connection_loop: "none" (it has not
                      \* ended), "observer_gone", "backend_gone", "error"
    receiver,         \* per connection: its watch::Receiver: "none", "seen" (it has seen
                      \* the channel's version), "changed" (the version moved on)
    socket,           \* per connection: the last frame written to its WebSocket
                      \* ("none": nothing yet, "dropped": the socket was dropped)
    observers,        \* backend: property observers, [id, property, by]
    calls,            \* per connection: number of unobserve / release / Disconnected calls made
    released,         \* per connection: result of the drain's release_id ("none" before)
    counter_queue,    \* mpsc channel of ConnectionEvent to the status notifier
    connection_count, \* status notifier: its connection_count
    notifier,         \* status notifier task: "starting", "running", "panicked"
    event_stream,     \* status notifier: items its backend event stream holds, unread
    event_branch,     \* status notifier: its select's event_stream branch, "enabled" or
                      \* "disabled" (for the rest of the current select call)
    process,          \* main: "running", "exited"
    handled,          \* what connection_loop did with the last inbound frame:
                      \* [frame, result, calls], calls being the backend calls
                      \* handle_message made for it
    mpv,              \* backend: [pause, media_title, playlist, removals]: two of its
                      \* properties, its playlist (each entry written as the position
                      \* it had at the start) and the entries removed so far, each
                      \* with the connection and the index of the call
    loop,             \* per connection: its session task followed from one await to
                      \* the next (LoopSpec, GapSpec): [at, frame, pending, log,
                      \* stream, snapshot, gap], stream being the events waiting on
                      \* its event stream, snapshot the pause value its
                      \* initial_state reported (-1: none) and gap the handshake
                      \* step it stood at when pause last changed between its
                      \* snapshot and its get_event_stream ("": it never did)
    status            \* status notifier: [playing, current_song, line, emissions]: its
                      \* locals, the last status line it emitted and how many it
                      \* has emitted (modulo EmissionModulus)

poolvars == <<pool, hist>>
tracevars == <<mpv, loop>>
mainvars == <<event_stream, event_branch, process, handled, tracevars, status>>
sysvars == <<pc, channel_id, hs_fail, initial_state, cause, receiver, socket,
             observers, calls, released, counter_queue, connection_count, notifier,
             mainvars>>
vars == <<pool, hist, pc, channel_id, hs_fail, initial_state, cause, receiver, socket,
          observers, calls, released, counter_queue, connection_count, notifier,
          event_stream, event_branch, process, handled, mpv, loop, status>>

(***************************************************************************)
(* Bounds                                                                  *)
(***************************************************************************)
\* capacity of the pool the test driver of PoolSpec constructs
PoolCapacity == 3
\* number of calls the test driver of PoolSpec makes
MaxCalls == 5
\* number of connections the server of Spec accepts
NConns == 2

Conns == 1..NConns

SetMin(S) == CHOOSE x \in S : \A y \in S : x <= y

Last(s) == s[Len(s)]

(***************************************************************************)
(* IdPool (src/util/id_pool.rs)                                            *)
(***************************************************************************)
new_with_max_limit(m) ==
    [max_id |-> m, free_ids |-> {}, id_count |-> 0,
     watch |-> 0, version |-> 0, receiver_version |-> 0, panicked |-> FALSE]

\* self.id_count - self.free_ids.len(): a u64 subtraction
IdCountMutNoFree(p) == p.id_count
id_count(p) == p.id_count - Cardinality(p.free_ids)

\* the subtraction of id_count() overflows
IdCountOverflows(p) == p.id_count < Cardinality(p.free_ids)

Ok(v) == [tag |-> "Ok", val |-> v]
Err(e, v) == [tag |-> e, val |-> v]
Panic == [tag |-> "panic", val |-> 0]

IdIsUsedMutBoundInclusive(p, id) ==
    IF id >= p.max_id THEN Err("IdOutOfBound", id)
    ELSE IF id \in p.free_ids THEN Ok(FALSE)
    ELSE Ok(id <= p.id_count)

id_is_used(p, id) ==
    IF id > p.max_id THEN Err("IdOutOfBound", id)
    ELSE IF id \in p.free_ids THEN Ok(FALSE)
    ELSE Ok(id <= p.id_count)

\* watch::Sender::send(self.id_count()); overflow_checks is the build's choice
\* for integer overflow: TRUE panics (debug), FALSE wraps (release).
update_watch(p, overflow_checks) ==
    IF IdCountOverflows(p) /\ overflow_checks
    THEN [p EXCEPT !.panicked = TRUE]
    ELSE [p EXCEPT !.watch = id_count(p), !.version = @ + 1]

\* the result of a call that ends with update_watch
Returning(q, ret) == [pool |-> q, ret |-> IF q.panicked THEN Panic ELSE ret]

RequestIdMutInclusive(p, overflow_checks) ==
    IF p.free_ids # {}
    THEN LET id == SetMin(p.free_ids)
         IN Returning(update_watch([p EXCEPT !.free_ids = @ \ {id}], overflow_checks), Ok(id))
    ELSE IF p.id_count <= p.max_id
    THEN LET q == [p EXCEPT !.id_count = @ + 1]
         IN Returning(update_watch(q, overflow_checks), Ok(q.id_count))
    ELSE [pool |-> p, ret |-> Err("NoFreeIds", 0)]

RequestIdMutNoStore(p, overflow_checks) ==
    IF p.free_ids # {}
    THEN LET id == SetMin(p.free_ids)
         IN Returning(update_watch([p EXCEPT !.free_ids = @ \ {id}], overflow_checks), Ok(id))
    ELSE IF p.id_count < p.max_id
    THEN Returning(update_watch(p, overflow_checks), Ok(p.id_count + 1))
    ELSE [pool |-> p, ret |-> Err("NoFreeIds", 0)]

RequestIdMutLargest(p, overflow_checks) ==
    IF p.free_ids # {}
    THEN LET id == CHOOSE x \in p.free_ids : \A y \in p.free_ids : y <= x
         IN Returning(update_watch([p EXCEPT !.free_ids = @ \ {id}], overflow_checks), Ok(id))
    ELSE IF p.id_count < p.max_id
    THEN LET q == [p EXCEPT !.id_count = @ + 1]
         IN Returning(update_watch(q, overflow_checks), Ok(q.id_count))
    ELSE [pool |-> p, ret |-> Err("NoFreeIds", 0)]

request_id(p, overflow_checks) ==
    IF p.free_ids # {}
    THEN LET id == SetMin(p.free_ids)
         IN Returning(update_watch([p EXCEPT !.free_ids = @ \ {id}], overflow_checks), Ok(id))
    ELSE IF p.id_count < p.max_id
    THEN LET q == [p EXCEPT !.id_count = @ + 1]
         IN Returning(update_watch(q, overflow_checks), Ok(q.id_count))
    ELSE [pool |-> p, ret |-> Err("NoFreeIds", 0)]

ReleaseIdMutNoWatch(p, id, overflow_checks) ==
    LET used == id_is_used(p, id)
    IN IF used.tag # "Ok" THEN [pool |-> p, ret |-> used]
       ELSE IF ~used.val THEN [pool |-> p, ret |-> Err("IdNotInUse", id)]
       ELSE [pool |-> [p EXCEPT !.free_ids = @ \cup {id}], ret |-> Ok(0)]

release_id(p, id, overflow_checks) ==
    LET used == id_is_used(p, id)
    IN IF used.tag # "Ok" THEN [pool |-> p, ret |-> used]
       ELSE IF ~used.val THEN [pool |-> p, ret |-> Err("IdNotInUse", id)]
       ELSE Returning(update_watch([p EXCEPT !.free_ids = @ \cup {id}], overflow_checks),
                      Ok(0))

\* receiver.borrow().clone()
WatchBorrow(p) == p.watch

\* self.id_count_watch_receiver.clone(): the clone starts at the version the
\* pool's own receiver has seen; nothing ever reads that receiver.
get_id_count_watch_receiver(p) ==
    IF p.receiver_version = p.version THEN "seen" ELSE "changed"

NotifiedMutNone(rs, p, q) == rs

\* the receivers rs after a call that took the pool from p to q: a send moves the
\* channel's version past what every receiver has seen
Notified(rs, p, q) ==
    IF q.version = p.version THEN rs
    ELSE [c \in DOMAIN rs |-> IF rs[c] = "none" THEN "none" ELSE "changed"]

(***************************************************************************)
(* PoolSpec: a caller that owns the pool and calls it directly             *)
(***************************************************************************)
\* ids the driver passes to release_id: 0, every id of the pool, one beyond
ReleaseArgs == 0..(PoolCapacity + 1)

\* an inbound WebSocket message: its type (ws), and for a text frame whether the
\* text is JSON, the JSON's "type" tag and its "positions" list
Message(ws, json, type, positions) ==
    [ws |-> ws, json |-> json, type |-> type, positions |-> positions]

NoMessage == Message("none", FALSE, "", <<>>)

\* Option<String>
None == [some |-> FALSE, val |-> ""]
Some(v) == [some |-> TRUE, val |-> v]

\* the status line send_play_status formats: "[CONN: n] [PLAY]|[STOP] <song>",
\* the song of None being the empty string
send_play_status(playing, current_song, count) ==
    [conn |-> count,
     play |-> IF playing THEN "[PLAY]" ELSE "[STOP]",
     song |-> IF current_song.some THEN current_song.val ELSE ""]

NoLine == [conn |-> -1, play |-> "", song |-> ""]

\* status lines are counted modulo this
EmissionModulus == 3

EmitMutSuppressUnchanged(st, count) ==
    IF send_play_status(st.playing, st.current_song, count) = st.line THEN st
    ELSE [st EXCEPT !.line = send_play_status(st.playing, st.current_song, count),
                    !.emissions = (@ + 1) % EmissionModulus]

\* the notifier calls send_play_status with its locals
Emit(st, count) ==
    [st EXCEPT !.line = send_play_status(st.playing, st.current_song, count),
               !.emissions = (@ + 1) % EmissionModulus]

\* mpv as main finds it when nothing has been loaded
IdleMpv == [pause |-> FALSE, media_title |-> None, playlist |-> <<>>, removals |-> <<>>]

\* the pause flag and title a get_property call can find
MpvStates ==
    {[IdleMpv EXCEPT !.pause = paused, !.media_title = title] :
        paused \in BOOLEAN, title \in {None, Some("a")}}

\* connection_loop before it has been entered
NoLoop ==
    [at |-> "none", frame |-> [type |-> "none", value |-> 0], pending |-> <<>>, log |-> <<>>,
     stream |-> <<>>, snapshot |-> -1, gap |-> ""]

SysInit ==
    /\ pc = [c \in Conns |-> "idle"]
    /\ channel_id = [c \in Conns |-> 0]
    /\ hs_fail = [c \in Conns |-> "none"]
    /\ initial_state = [c \in Conns |-> -1]
    /\ cause = [c \in Conns |-> "none"]
    /\ receiver = [c \in Conns |-> "none"]
    /\ socket = [c \in Conns |-> [type |-> "none", value |-> 0]]
    /\ observers = {}
    /\ calls = [c \in Conns |-> [unobserve |-> 0, release |-> 0, disconnected |-> 0]]
    /\ released = [c \in Conns |-> "none"]
    /\ counter_queue = <<>>
    /\ connection_count = 0
    /\ notifier = "starting"
    /\ event_stream = <<>>
    /\ event_branch = "enabled"
    /\ process = "running"
    /\ handled = [frame |-> NoMessage, result |-> "none", calls |-> <<>>]
    /\ loop = [c \in Conns |-> NoLoop]
    /\ status = [playing |-> FALSE, current_song |-> None, line |-> NoLine, emissions |-> 0]

PoolInit ==
    /\ pool = new_with_max_limit(PoolCapacity)
    /\ hist = <<>>
    /\ mpv = IdleMpv
    /\ SysInit

Called(op, arg, r) ==
    /\ pool' = r.pool
    /\ hist' = Append(hist, [op |-> op, arg |-> arg, ret |-> r.ret,
                             seen |-> WatchBorrow(r.pool)])
    /\ UNCHANGED sysvars

TestRequestId ==
    /\ ~pool.panicked
    /\ Len(hist) < MaxCalls
    /\ \E overflow_checks \in BOOLEAN :
          Called("request_id", 0, request_id(pool, overflow_checks))

TestReleaseId(id) ==
    /\ ~pool.panicked
    /\ Len(hist) < MaxCalls
    /\ \E overflow_checks \in BOOLEAN :
          Called("release_id", id, release_id(pool, id, overflow_checks))

PoolNext ==
    \/ TestRequestId
    \/ \E id \in ReleaseArgs : TestReleaseId(id)

PoolSpec == PoolInit /\ [][PoolNext]_vars

(***************************************************************************)
(* Spec: the server (src/main.rs, src/api/websocket_v1.rs)                 *)
(***************************************************************************)
\* mpsc::channel(10)
CounterQueueCapacity == 10
\* the owner id of the status notifier's observers
NotifierObserverId == 100
\* the owner id setup_default_subscribes passes to observe_property
DefaultSubscribeId == 0

DEFAULT_PROPERTY_SUBSCRIPTIONS ==
    <<"chapter-list", "demuxer-cache-state", "duration", "loop-playlist", "mute",
      "pause", "paused-for-cache", "percent-pos", "playlist", "track-list", "volume">>

\* how many observe_property calls took effect before one failed: none, or all
\* but the last
PartialSubscribes == {0, Len(DEFAULT_PROPERTY_SUBSCRIPTIONS) - 1}

\* capacities of the server's pool, scaled to the number of connections: one
\* too small for all of them, and one that holds them all
ServerCapacities == {NConns - 1, NConns}

Frame(type, value) == [type |-> type, value |-> value]

Init ==
    /\ \E m \in ServerCapacities : pool = new_with_max_limit(m)
    /\ hist = <<>>
    /\ mpv = IdleMpv
    /\ SysInit

\* connection_counter_tx.send(event).await: queued while the receiver lives,
\* an error (logged by the caller) once the notifier task has dropped it
CounterSend(event) ==
    IF notifier = "panicked"
    THEN counter_queue' = counter_queue
    ELSE /\ Len(counter_queue) < CounterQueueCapacity
         /\ counter_queue' = Append(counter_queue, event)

WebsocketHandlerMutUpgradeAnyway(c) ==
    /\ pc[c] = "idle"
    /\ \A d \in Conns : d < c => pc[d] # "idle"
    /\ \E overflow_checks \in BOOLEAN :
          LET r == request_id(pool, overflow_checks)
          IN /\ pool' = r.pool
             /\ receiver' = Notified(receiver, pool, r.pool)
             /\ channel_id' = [channel_id EXCEPT ![c] = IF r.ret.tag = "Ok" THEN r.ret.val ELSE 0]
             /\ pc' = [pc EXCEPT ![c] = IF r.ret.tag = "panic" THEN "panicked"
                                        ELSE "upgrading"]
    /\ UNCHANGED <<hist, hs_fail, initial_state, cause, socket, observers,
                   calls, released, counter_queue, connection_count, notifier,
                   mainvars>>

\* websocket_handler: connections are numbered in the order they reach it
websocket_handler(c) ==
    /\ pc[c] = "idle"
    /\ \A d \in Conns : d < c => pc[d] # "idle"
    /\ \E overflow_checks \in BOOLEAN :
          LET r == request_id(pool, overflow_checks)
          IN /\ pool' = r.pool
             /\ receiver' = Notified(receiver, pool, r.pool)
             /\ channel_id' = [channel_id EXCEPT ![c] = IF r.ret.tag = "Ok" THEN r.ret.val ELSE 0]
             /\ pc' = [pc EXCEPT ![c] = IF r.ret.tag = "Ok" THEN "upgrading"
                                        ELSE IF r.ret.tag = "panic" THEN "panicked"
                                        ELSE "rejected"]
    /\ UNCHANGED <<hist, hs_fail, initial_state, cause, socket, observers,
                   calls, released, counter_queue, connection_count, notifier,
                   mainvars>>

\* ws.on_upgrade: the callback runs once the upgrade completes, and never if it fails
on_upgrade(c) ==
    /\ pc[c] = "upgrading"
    /\ \E upgraded \in BOOLEAN :
          pc' = [pc EXCEPT ![c] = IF upgraded THEN "connected" ELSE "upgrade_failed"]
    /\ UNCHANGED <<pool, hist, channel_id, hs_fail, initial_state, cause, receiver,
                   socket, observers, calls, released, counter_queue,
                   connection_count, notifier,
                   mainvars>>

SendConnectedMutNotSent(c) ==
    /\ pc[c] = "connected"
    /\ pc' = [pc EXCEPT ![c] = "snapshot"]
    /\ UNCHANGED <<pool, hist, channel_id, hs_fail, initial_state, cause, receiver,
                   socket, observers, calls, released, counter_queue, connection_count,
                   notifier, mainvars>>

\* handle_connection: connection_counter_tx.send(ConnectionEvent::Connected)
SendConnected(c) ==
    /\ pc[c] = "connected"
    /\ CounterSend("Connected")
    /\ pc' = [pc EXCEPT ![c] = "snapshot"]
    /\ UNCHANGED <<pool, hist, channel_id, hs_fail, initial_state, cause, receiver,
                   socket, observers, calls, released, connection_count, notifier,
                   mainvars>>

\* get_initial_state: a failing backend read is replaced by a default; the
\* connections field is id_count() of the pool, read under its lock
get_initial_state(c) ==
    /\ pc[c] = "snapshot"
    /\ \E fetch_ok \in BOOLEAN :
          initial_state' = [initial_state EXCEPT ![c] = id_count(pool)]
    /\ pc' = [pc EXCEPT ![c] = "send_initial"]
    /\ UNCHANGED <<pool, hist, channel_id, hs_fail, cause, receiver, socket, observers,
                   calls, released, counter_queue, connection_count, notifier,
                   mainvars>>

\* an unwrap in handle_connection fails: the task unwinds, dropping the socket
Panicked(c, step) ==
    /\ pc' = [pc EXCEPT ![c] = "panicked"]
    /\ hs_fail' = [hs_fail EXCEPT ![c] = step]
    /\ socket' = [socket EXCEPT ![c] = Frame("dropped", 0)]

\* socket.send(initial_state).await.unwrap()
SendInitialState(c) ==
    /\ pc[c] = "send_initial"
    /\ \E sent \in BOOLEAN :
          IF sent
          THEN /\ socket' = [socket EXCEPT ![c] = Frame("initial_state", initial_state[c])]
               /\ pc' = [pc EXCEPT ![c] = "subscribe"]
               /\ UNCHANGED hs_fail
          ELSE Panicked(c, "send")
    /\ initial_state' = [initial_state EXCEPT ![c] = -1]
    /\ UNCHANGED <<pool, hist, channel_id, cause, receiver, observers,
                   calls, released, counter_queue, connection_count, notifier,
                   mainvars>>

\* the observers the first n observe_property calls of session c register
Subscribed(c, n) ==
    {[id |-> DefaultSubscribeId, property |-> DEFAULT_PROPERTY_SUBSCRIPTIONS[i], by |-> c] :
        i \in 1..n}

\* setup_default_subscribes(&mpv).await.unwrap(); when it returns Ok,
\* handle_connection clones the watch receiver and spawns connection_loop
\* without suspending in between
setup_default_subscribes(c) ==
    /\ pc[c] = "subscribe"
    /\ \/ /\ observers' = observers \cup Subscribed(c, Len(DEFAULT_PROPERTY_SUBSCRIPTIONS))
          /\ receiver' = [receiver EXCEPT ![c] = get_id_count_watch_receiver(pool)]
          /\ pc' = [pc EXCEPT ![c] = "active"]
          /\ UNCHANGED <<hs_fail, socket>>
       \/ /\ \E n \in PartialSubscribes : observers' = observers \cup Subscribed(c, n)
          /\ Panicked(c, "subscribe")
          /\ UNCHANGED receiver
    /\ UNCHANGED <<pool, hist, channel_id, initial_state, cause,
                   calls, released, counter_queue, connection_count, notifier,
                   mainvars>>

LoopEndsMutSkipsDrain(c, why) ==
    /\ cause' = [cause EXCEPT ![c] = why]
    /\ pc' = [pc EXCEPT ![c] = "closed"]
    /\ socket' = [socket EXCEPT ![c] = Frame("dropped", 0)]
    /\ receiver' = [receiver EXCEPT ![c] = "none"]

\* connection_loop returns, dropping the socket and the watch receiver it owns;
\* handle_connection goes on to its drain steps
LoopEnds(c, why) ==
    /\ cause' = [cause EXCEPT ![c] = why]
    /\ pc' = [pc EXCEPT ![c] = "unobserve"]
    /\ socket' = [socket EXCEPT ![c] = Frame("dropped", 0)]
    /\ receiver' = [receiver EXCEPT ![c] = "none"]

\* the loop goes round again, with the watch receiver as given
LoopContinues(c, seen) ==
    /\ receiver' = [receiver EXCEPT ![c] = seen]
    /\ UNCHANGED <<pc, cause>>

\* socket.send(frame).await?
SocketSend(c, frame, seen) ==
    \E sent \in BOOLEAN :
        IF sent
        THEN /\ socket' = [socket EXCEPT ![c] = frame]
             /\ LoopContinues(c, seen)
        ELSE LoopEnds(c, "error")

\* connection_loop, select branch: id_count_watch_receiver.changed()
CountChanged(c) ==
    /\ pc[c] = "active"
    /\ receiver[c] = "changed"
    /\ SocketSend(c, Frame("connection_count", WatchBorrow(pool)), "seen")
    /\ UNCHANGED <<pool, hist, channel_id, hs_fail, initial_state, observers, calls,
                   released, counter_queue, connection_count, notifier,
                   mainvars>>

InboundMessages ==
    {"stream_end", "read_error", "close", "ping", "binary", "pong", "not_json",
     "not_a_command", "command"}

SocketRecvMutDecodeFatal(c, message) ==
    /\ pc[c] = "active"
    /\ CASE message \in {"stream_end", "read_error", "close"} -> LoopEnds(c, "observer_gone")
         [] message = "ping" -> SocketSend(c, Frame("pong", 0), receiver[c])
         [] message \in {"binary", "pong", "not_json", "not_a_command"} -> LoopEnds(c, "error")
         [] message = "command" ->
                \E backend_ok \in BOOLEAN :
                    LoopContinues(c, receiver[c]) /\ UNCHANGED socket
    /\ UNCHANGED <<pool, hist, channel_id, hs_fail, initial_state, observers,
                   calls, released, counter_queue, connection_count, notifier>>

SocketRecvMutCloseIgnored(c, message) ==
    /\ pc[c] = "active"
    /\ CASE message \in {"stream_end", "read_error"} -> LoopEnds(c, "observer_gone")
         [] message = "ping" -> SocketSend(c, Frame("pong", 0), receiver[c])
         [] message \in {"binary", "pong", "not_json"} -> LoopEnds(c, "error")
         [] message \in {"close", "not_a_command"} ->
                LoopContinues(c, receiver[c]) /\ UNCHANGED socket
         [] message = "command" ->
                \E backend_ok \in BOOLEAN :
                    LoopContinues(c, receiver[c]) /\ UNCHANGED socket
    /\ UNCHANGED <<pool, hist, channel_id, hs_fail, initial_state, observers,
                   calls, released, counter_queue, connection_count, notifier>>

\* connection_loop, select branch: socket.recv(); no command makes
\* handle_message return a response, so no response frame is ever sent
SocketRecv(c, message) ==
    /\ pc[c] = "active"
    /\ CASE message \in {"stream_end", "read_error", "close"} -> LoopEnds(c, "observer_gone")
         [] message = "ping" -> SocketSend(c, Frame("pong", 0), receiver[c])
         [] message \in {"binary", "pong", "not_json"} -> LoopEnds(c, "error")
         [] message = "not_a_command" -> LoopContinues(c, receiver[c]) /\ UNCHANGED socket
         [] message = "command" ->
                \E backend_ok \in BOOLEAN :
                    LoopContinues(c, receiver[c]) /\ UNCHANGED socket
    /\ UNCHANGED <<pool, hist, channel_id, hs_fail, initial_state, observers,
                   calls, released, counter_queue, connection_count, notifier>>

\* the same, for a server that keeps no record of the frames it handled
Recv(c, message) == SocketRecv(c, message) /\ UNCHANGED mainvars

EventStreamItems == {"event", "error", "end"}

EventMutEndIgnored(c, item) ==
    /\ pc[c] = "active"
    /\ CASE item \in {"event", "end"} -> SocketSend(c, Frame("event", 0), receiver[c])
         [] item = "error" -> LoopEnds(c, "backend_gone")
    /\ UNCHANGED <<pool, hist, channel_id, hs_fail, initial_state, observers,
                   calls, released, counter_queue, connection_count, notifier,
                   mainvars>>

\* connection_loop, select branch: event_stream.next()
Event(c, item) ==
    /\ pc[c] = "active"
    /\ CASE item = "event" -> SocketSend(c, Frame("event", 0), receiver[c])
         [] item \in {"error", "end"} -> LoopEnds(c, "backend_gone")
    /\ UNCHANGED <<pool, hist, channel_id, hs_fail, initial_state, observers,
                   calls, released, counter_queue, connection_count, notifier,
                   mainvars>>

Count(c, step) == [calls EXCEPT ![c][step] = @ + 1]

UnobservePropertyMutStopsOnError(c) ==
    /\ pc[c] = "unobserve"
    /\ \E done \in BOOLEAN :
          /\ observers' = IF done THEN {o \in observers : o.id # channel_id[c]} ELSE observers
          /\ pc' = [pc EXCEPT ![c] = IF done THEN "release" ELSE "panicked"]
    /\ calls' = Count(c, "unobserve")
    /\ UNCHANGED <<pool, hist, channel_id, hs_fail, initial_state, cause, receiver,
                   socket, released, counter_queue, connection_count, notifier,
                   mainvars>>

\* handle_connection: mpv.unobserve_property(channel_id)
unobserve_property(c) ==
    /\ pc[c] = "unobserve"
    /\ \E done \in BOOLEAN :
          observers' = IF done THEN {o \in observers : o.id # channel_id[c]} ELSE observers
    /\ calls' = Count(c, "unobserve")
    /\ pc' = [pc EXCEPT ![c] = "release"]
    /\ UNCHANGED <<pool, hist, channel_id, hs_fail, initial_state, cause, receiver,
                   socket, released, counter_queue, connection_count, notifier,
                   mainvars>>

ReleaseChannelIdMutTwice(c) ==
    /\ pc[c] = "release"
    /\ \E overflow_checks \in BOOLEAN :
          LET r == release_id(pool, channel_id[c], overflow_checks)
          IN /\ pool' = r.pool
             /\ receiver' = Notified(receiver, pool, r.pool)
             /\ released' = [released EXCEPT ![c] = r.ret.tag]
             /\ pc' = [pc EXCEPT ![c] = IF r.ret.tag = "panic" THEN "panicked"
                                        ELSE IF calls[c].release = 0 THEN "release"
                                        ELSE "notify"]
    /\ calls' = Count(c, "release")
    /\ UNCHANGED <<hist, channel_id, hs_fail, initial_state, cause, socket,
                   observers, counter_queue, connection_count, notifier,
                   mainvars>>

\* handle_connection: id_pool.lock().unwrap().release_id(channel_id)
ReleaseChannelId(c) ==
    /\ pc[c] = "release"
    /\ \E overflow_checks \in BOOLEAN :
          LET r == release_id(pool, channel_id[c], overflow_checks)
          IN /\ pool' = r.pool
             /\ receiver' = Notified(receiver, pool, r.pool)
             /\ released' = [released EXCEPT ![c] = r.ret.tag]
             /\ pc' = [pc EXCEPT ![c] = IF r.ret.tag = "panic" THEN "panicked" ELSE "notify"]
    /\ calls' = Count(c, "release")
    /\ UNCHANGED <<hist, channel_id, hs_fail, initial_state, cause, socket,
                   observers, counter_queue, connection_count, notifier,
                   mainvars>>

\* handle_connection: connection_counter_tx.send(ConnectionEvent::Disconnected)
SendDisconnected(c) ==
    /\ pc[c] = "notify"
    /\ CounterSend("Disconnected")
    /\ calls' = Count(c, "disconnected")
    /\ pc' = [pc EXCEPT ![c] = "closed"]
    /\ UNCHANGED <<pool, hist, channel_id, hs_fail, initial_state, cause, receiver,
                   socket, observers, released, connection_count, notifier,
                   mainvars>>

\* start_status_notifier_thread: the task's observe_property / get_property
\* calls, each unwrapped; a panic drops the receiver of the counter channel, with
\* no observer registered yet (the first call failed) or with both (a later one);
\* when all four returned, the first status line is emitted, connection_count
\* being 0
NotifierStart ==
    /\ notifier = "starting"
    /\ \/ /\ notifier' = "running"
          /\ observers' = observers \cup
                {[id |-> NotifierObserverId, property |-> p, by |-> 0] :
                    p \in {"media-title", "pause"}}
          /\ status' = Emit([status EXCEPT !.current_song = mpv.media_title,
                                           !.playing = ~mpv.pause],
                            connection_count)
          /\ UNCHANGED counter_queue
       \/ /\ notifier' = "panicked"
          /\ counter_queue' = <<>>
          /\ UNCHANGED status
          /\ \E n \in {0, 2} :
                observers' = observers \cup
                    {[id |-> NotifierObserverId, property |-> <<"media-title", "pause">>[i],
                      by |-> 0] : i \in 1..n}
    /\ UNCHANGED <<pool, hist, pc, channel_id, hs_fail, initial_state, cause, receiver,
                   socket, calls, released, connection_count,
                   event_stream, event_branch, process, handled, tracevars>>

\* connection_count.checked_add_signed(event.to_i8()), reset to 0 on None
to_i8(event) == IF event = "Connected" THEN 1 ELSE -1

CheckedAddSignedMutNoReset(count, delta) == count + delta

checked_add_signed(count, delta) ==
    IF count + delta < 0 THEN 0 ELSE count + delta

\* the notifier's select branch: connection_counter_rx.recv(), which ends with
\* send_play_status; the loop then enters select anew, with every branch enabled
NotifierRecv ==
    /\ notifier = "running"
    /\ counter_queue # <<>>
    /\ connection_count' = checked_add_signed(connection_count, to_i8(Head(counter_queue)))
    /\ counter_queue' = Tail(counter_queue)
    /\ event_branch' = "enabled"
    /\ status' = Emit(status, connection_count')
    /\ UNCHANGED <<pool, hist, pc, channel_id, hs_fail, initial_state, cause, receiver,
                   socket, observers, calls, released, notifier,
                   event_stream, process, handled, tracevars>>

Next ==
    \/ \E c \in Conns :
          \/ websocket_handler(c)
          \/ on_upgrade(c)
          \/ SendConnected(c)
          \/ get_initial_state(c)
          \/ SendInitialState(c)
          \/ setup_default_subscribes(c)
          \/ CountChanged(c)
          \/ \E message \in InboundMessages : Recv(c, message)
          \/ \E item \in EventStreamItems : Event(c, item)
          \/ unobserve_property(c)
          \/ ReleaseChannelId(c)
          \/ SendDisconnected(c)
    \/ NotifierStart
    \/ NotifierRecv

Spec == Init /\ [][Next]_vars

(***************************************************************************)
(* SessionSpec: one session in connection_loop, with the frames its        *)
(* observer sends and the backend calls handle_message makes for them      *)
(***************************************************************************)
\* longest positions list of a PlaylistRemove
MaxPositions == 3
\* largest playlist position
MaxPosition == 3

\* the connection SessionSpec follows
FirstConn == SetMin(Conns)

\* positions.sort()
RECURSIVE sort(_)
sort(s) ==
    IF Len(s) <= 1 THEN s
    ELSE LET x == Head(s)
             r == sort(Tail(s))
             n == Cardinality({i \in 1..Len(r) : r[i] < x})
         IN SubSeq(r, 1, n) \o <<x>> \o SubSeq(r, n + 1, Len(r))

\* positions.iter().rev()
rev(s) == [i \in 1..Len(s) |-> s[Len(s) + 1 - i]]

\* the tags serde accepts for WSCommand (rename_all = "snake_case")
WSCommand ==
    {"load", "toggle_playback", "volume", "time", "playlist_next", "playlist_previous",
     "playlist_goto", "playlist_clear", "playlist_remove", "playlist_move", "shuffle",
     "set_subtitle_track", "set_looping"}

PositionLists == UNION {[1..n -> 0..MaxPosition] : n \in 0..MaxPositions}

\* PlaylistRemove commands, with every positions list within the bounds
PlaylistRemoveFrames ==
    {Message("text", TRUE, "playlist_remove", ps) : ps \in PositionLists}

\* the frames the observer of SessionSpec sends: one of each kind
InboundFrames ==
    {Message(ws, FALSE, "", <<>>) : ws \in {"close", "ping", "binary", "pong", "text"}}
        \cup {Message("text", TRUE, t, <<>>) : t \in {"Explode", "toggle_playback"}}
        \cup {Message("text", TRUE, "playlist_remove", <<2, 0, 3>>)}

\* what connection_loop takes the message for
Classify(message) ==
    IF message.ws # "text" THEN message.ws
    ELSE IF ~message.json THEN "not_json"
    ELSE IF message.type \notin WSCommand THEN "not_a_command"
    ELSE "command"

\* the backend calls the match arm of a command makes when none of them fails
BackendCalls(command) ==
    IF command.type = "playlist_remove"
    THEN LET positions == rev(sort(command.positions))
         IN [i \in 1..Len(positions) |-> [op |-> "playlist_remove_id", arg |-> positions[i]]]
    ELSE IF command.type = "toggle_playback"
    THEN <<[op |-> "set_playback", arg |-> 0]>>
    ELSE <<[op |-> command.type, arg |-> 0]>>

HandleMessageMutAscending(message, fail_at) ==
    IF message.type \notin WSCommand
    THEN [result |-> "decode_error", calls |-> <<>>]
    ELSE LET planned == rev(BackendCalls(message))
         IN IF fail_at \in 1..Len(planned)
            THEN [result |-> "backend_error", calls |-> SubSeq(planned, 1, fail_at)]
            ELSE [result |-> "ok", calls |-> planned]

\* handle_message: from_value::<WSCommand> fails on an unknown tag; the
\* fail_at-th backend call returns Err (0: none does) and `?` returns it
handle_message(message, fail_at) ==
    IF message.type \notin WSCommand
    THEN [result |-> "decode_error", calls |-> <<>>]
    ELSE LET planned == BackendCalls(message)
         IN IF fail_at \in 1..Len(planned)
            THEN [result |-> "backend_error", calls |-> SubSeq(planned, 1, fail_at)]
            ELSE [result |-> "ok", calls |-> planned]

\* which backend call of handle_message fails: none (0), or one of those the
\* message makes
FailPoints(message) ==
    IF Classify(message) = "command" THEN 0..Len(BackendCalls(message)) ELSE {0}

\* connection_loop, select branch: socket.recv(), for a given message
RecvFrame(c, message) ==
    /\ \E fail_at \in FailPoints(message) :
          LET kind == Classify(message)
              h == IF kind \in {"not_a_command", "command"}
                   THEN handle_message(message, fail_at)
                   ELSE [result |-> kind, calls |-> <<>>]
          IN /\ SocketRecv(c, kind)
             /\ handled' = [frame |-> message, result |-> h.result, calls |-> h.calls]
    /\ UNCHANGED <<event_stream, event_branch, process, tracevars, status>>

\* the server after the handshake of its first connection
SessionInit ==
    /\ pool = request_id(new_with_max_limit(NConns), FALSE).pool
    /\ hist = <<>>
    /\ pc = [c \in Conns |-> IF c = FirstConn THEN "active" ELSE "idle"]
    /\ channel_id = [c \in Conns |-> IF c = FirstConn THEN 1 ELSE 0]
    /\ hs_fail = [c \in Conns |-> "none"]
    /\ initial_state = [c \in Conns |-> -1]
    /\ cause = [c \in Conns |-> "none"]
    /\ receiver = [c \in Conns |->
                     IF c = FirstConn THEN get_id_count_watch_receiver(pool) ELSE "none"]
    /\ socket = [c \in Conns |-> IF c = FirstConn THEN Frame("initial_state", id_count(pool))
                                 ELSE Frame("none", 0)]
    /\ observers = Subscribed(FirstConn, Len(DEFAULT_PROPERTY_SUBSCRIPTIONS))
    /\ calls = [c \in Conns |-> [unobserve |-> 0, release |-> 0, disconnected |-> 0]]
    /\ released = [c \in Conns |-> "none"]
    /\ counter_queue = <<"Connected">>
    /\ connection_count = 0
    /\ notifier = "starting"
    /\ event_stream = <<>>
    /\ event_branch = "enabled"
    /\ process = "running"
    /\ handled = [frame |-> NoMessage, result |-> "none", calls |-> <<>>]
    /\ mpv = IdleMpv
    /\ loop = [c \in Conns |-> NoLoop]
    /\ status = [playing |-> FALSE, current_song |-> None, line |-> NoLine, emissions |-> 0]

SessionNext ==
    \/ \E message \in InboundFrames : RecvFrame(FirstConn, message)
    \/ CountChanged(FirstConn)
    \/ \E item \in EventStreamItems : Event(FirstConn, item)
    \/ unobserve_property(FirstConn)
    \/ ReleaseChannelId(FirstConn)
    \/ SendDisconnected(FirstConn)

SessionSpec == SessionInit /\ [][SessionNext]_vars

(***************************************************************************)
(* CommandSpec: handle_message applied to one decoded text frame           *)
(***************************************************************************)
CommandFrames ==
    PlaylistRemoveFrames
        \cup {Message("text", TRUE, t, <<>>) : t \in {"Explode", "toggle_playback"}}

CommandInit ==
    /\ pool = new_with_max_limit(NConns)
    /\ hist = <<>>
    /\ pc = [c \in Conns |-> "idle"]
    /\ channel_id = [c \in Conns |-> 0]
    /\ hs_fail = [c \in Conns |-> "none"]
    /\ initial_state = [c \in Conns |-> -1]
    /\ cause = [c \in Conns |-> "none"]
    /\ receiver = [c \in Conns |-> "none"]
    /\ socket = [c \in Conns |-> Frame("none", 0)]
    /\ observers = {}
    /\ calls = [c \in Conns |-> [unobserve |-> 0, release |-> 0, disconnected |-> 0]]
    /\ released = [c \in Conns |-> "none"]
    /\ counter_queue = <<>>
    /\ connection_count = 0
    /\ notifier = "starting"
    /\ event_stream = <<>>
    /\ event_branch = "enabled"
    /\ process = "running"
    /\ mpv = IdleMpv
    /\ loop = [c \in Conns |-> NoLoop]
    /\ status = [playing |-> FALSE, current_song |-> None, line |-> NoLine, emissions |-> 0]
    /\ \E message \in CommandFrames :
          handled = [frame |-> message, result |-> "none", calls |-> <<>>]

\* handle_message(message_json, mpv.clone(), channel_id).await
HandleMessage ==
    /\ handled.result = "none"
    /\ \E fail_at \in FailPoints(handled.frame) :
          LET h == handle_message(handled.frame, fail_at)
          IN handled' = [handled EXCEPT !.result = h.result, !.calls = h.calls]
    /\ UNCHANGED <<pool, hist, pc, channel_id, hs_fail, initial_state, cause, receiver,
                   socket, observers, calls, released, counter_queue, connection_count,
                   notifier, event_stream, event_branch, process, tracevars, status>>

CommandSpec == CommandInit /\ [][HandleMessage]_vars

(***************************************************************************)
(* LoopSpec: connection_loop of one session followed from one await to the *)
(* next. loop[c].at is where the task of connection c stands: "select" (in *)
(* tokio::select!), "send" (in socket.send(frame).await), "call" (in a     *)
(* backend call of handle_message, the first of pending), "ended" (the     *)
(* function returned). loop[c].log lists, in the order they happened, what *)
(* select handed to the loop, the frames written and the backend calls     *)
(* made. loop[c].stream holds the events broadcast since the session's     *)
(* get_event_stream() that it has not taken yet.                           *)
(***************************************************************************)
\* most items one session takes from its select in LoopSpec
MaxHandled == 3
\* entries of the playlist LoopSpec starts with
PlaylistLen == 4

\* most events waiting on a session's event stream
MaxPending == 1

\* payloads of backend events and of pings
EventPayloads == {0, 1}
PingPayloads == {1, 2}

Entry(kind, what, value) == [kind |-> kind, what |-> what, value |-> value]

EventFrameMutNoValue(event) == Frame("event", 0)

\* json!({"type": "event", "value": event})
EventFrame(event) == Frame("event", event)

PongFrameMutEmpty(xs) == Frame("pong", 0)

\* Message::Pong(xs)
PongFrame(xs) == Frame("pong", xs)

\* json!({"type": "connection_count", "value": id_count_watch_receiver.borrow().clone()})
ConnectionCountFrame(p) == Frame("connection_count", WatchBorrow(p))

\* the entries of log of the given kind and, when what is not "", of that what
Entries(log, kind, what) ==
    SelectSeq(log, LAMBDA e : e.kind = kind /\ (what = "" \/ e.what = what))

\* the loop of connection c goes on to at, having logged entries
LoopAt(c, at, frame, pending, entries) ==
    loop' = [loop EXCEPT ![c] = [@ EXCEPT !.at = at, !.frame = frame, !.pending = pending,
                                          !.log = @ \o entries,
                                          !.stream = IF entries # <<>>
                                                        /\ entries[1].kind = "handled"
                                                        /\ entries[1].what = "event"
                                                     THEN Tail(@) ELSE @]]

AtSelectMutDuringCall(c) ==
    /\ pc[c] = "active"
    /\ loop[c].at \in {"select", "call"}
    /\ Len(Entries(loop[c].log, "handled", "")) < MaxHandled

\* select may hand the loop another item
AtSelect(c) ==
    /\ pc[c] = "active"
    /\ loop[c].at = "select"
    /\ Len(Entries(loop[c].log, "handled", "")) < MaxHandled

\* connection_loop returns (Ok or Err)
Returns(c, why, entries) ==
    /\ LoopEnds(c, why)
    /\ LoopAt(c, "ended", Frame("none", 0), <<>>, entries)

\* select branch id_count_watch_receiver.changed(): the value is borrowed and
\* the frame built before socket.send is awaited
SelectWatch(c) ==
    /\ AtSelect(c)
    /\ receiver[c] = "changed"
    /\ receiver' = [receiver EXCEPT ![c] = "seen"]
    /\ LoopAt(c, "send", ConnectionCountFrame(pool), <<>>,
              <<Entry("handled", "watch", WatchBorrow(pool))>>)
    /\ UNCHANGED <<pool, hist, pc, channel_id, hs_fail, initial_state, cause, socket,
                   observers, calls, released, counter_queue, connection_count, notifier,
                   event_stream, event_branch, process, handled, mpv, status>>

\* frames LoopSpec's observer sends, and the two ways socket.recv() yields none
LoopFrames ==
    InboundFrames \cup {Message(ws, FALSE, "", <<>>) : ws \in {"stream_end", "read_error"}}

\* select branch socket.recv(), up to its first await
SelectRecv(c, message, xs) ==
    /\ AtSelect(c)
    /\ LET kind == Classify(message)
           got == Entry("handled", IF kind = "command" THEN message.type ELSE kind, xs)
       IN CASE kind \in {"stream_end", "read_error", "close"} ->
                    Returns(c, "observer_gone", <<got>>)
            [] kind = "ping" ->
                    /\ LoopAt(c, "send", PongFrame(xs), <<>>, <<got>>)
                    /\ UNCHANGED <<pc, cause, socket, receiver>>
            [] kind \in {"binary", "pong", "not_json"} ->
                    Returns(c, "error", <<got>>)
            [] kind = "not_a_command" ->
                    /\ LoopAt(c, "select", Frame("none", 0), <<>>, <<got>>)
                    /\ UNCHANGED <<pc, cause, socket, receiver>>
            [] kind = "command" ->
                    /\ LoopAt(c, IF BackendCalls(message) = <<>> THEN "select" ELSE "call",
                              Frame("none", 0), BackendCalls(message), <<got>>)
                    /\ UNCHANGED <<pc, cause, socket, receiver>>
    /\ UNCHANGED <<pool, hist, channel_id, hs_fail, initial_state,
                   observers, calls, released, counter_queue, connection_count, notifier,
                   event_stream, event_branch, process, handled, mpv, status>>

\* what the session's event stream yields: Some(Ok(event)), Some(Err), None
LoopStreamItems == {"event", "error", "end"}

\* the session task of connection c holds an event stream
HasStream(c) == loop[c].at \notin {"none", "ended"}

\* the backend client broadcasts an event: every event stream that exists gets it
Broadcast(streams, event) ==
    [c \in Conns |-> IF streams[c].at \in {"none", "ended"} THEN streams[c]
                     ELSE [streams[c] EXCEPT !.stream = Append(@, event)]]

\* the backend emits an event
BackendEvent(event) ==
    /\ \A c \in Conns : Len(loop[c].stream) < MaxPending
    /\ loop' = Broadcast(loop, event)
    /\ UNCHANGED <<pool, hist, pc, channel_id, hs_fail, initial_state, cause, receiver,
                   socket, observers, calls, released, counter_queue, connection_count,
                   notifier, event_stream, event_branch, process, handled, mpv, status>>

\* select branch event_stream.next(), up to its first await: the first event
\* waiting, or the stream's error or end
SelectEvent(c, item) ==
    /\ AtSelect(c)
    /\ IF item = "event"
       THEN /\ loop[c].stream # <<>>
            /\ LoopAt(c, "send", EventFrame(Head(loop[c].stream)), <<>>,
                      <<Entry("handled", "event", Head(loop[c].stream))>>)
            /\ UNCHANGED <<pc, cause, socket, receiver>>
       ELSE Returns(c, "backend_gone", <<Entry("handled", item, 0)>>)
    /\ UNCHANGED <<pool, hist, channel_id, hs_fail, initial_state,
                   observers, calls, released, counter_queue, connection_count, notifier,
                   event_stream, event_branch, process, handled, mpv, status>>

\* socket.send(frame).await? returns
SendReturns(c) ==
    /\ pc[c] = "active"
    /\ loop[c].at = "send"
    /\ \E sent \in BOOLEAN :
          IF sent
          THEN /\ socket' = [socket EXCEPT ![c] = loop[c].frame]
               /\ LoopAt(c, "select", Frame("none", 0), <<>>,
                         <<Entry("sent", loop[c].frame.type, loop[c].frame.value)>>)
               /\ UNCHANGED <<pc, cause, receiver>>
          ELSE Returns(c, "error", <<>>)
    /\ UNCHANGED <<pool, hist, channel_id, hs_fail, initial_state,
                   observers, calls, released, counter_queue, connection_count, notifier,
                   event_stream, event_branch, process, handled, mpv, status>>

\* a playlist without its entry at index (from 0)
Without(playlist, index) ==
    SubSeq(playlist, 1, index) \o SubSeq(playlist, index + 2, Len(playlist))

\* the backend after a playlist_remove_id(index) of connection c that succeeds
Removed(backend, c, index) ==
    [backend EXCEPT !.playlist = Without(@, index),
                    !.removals = Append(@, [by |-> c, index |-> index,
                                            entry |-> backend.playlist[index + 1]])]

CallReturnsMutSerialized(c) ==
    /\ pc[c] = "active"
    /\ loop[c].at = "call"
    /\ \A d \in Conns \ {c} : loop[d].at = "call" => c < d
    /\ LET call == Head(loop[c].pending)
           removes == call.op = "playlist_remove_id"
       IN \E ok \in BOOLEAN :
             /\ (ok /\ removes) => call.arg < Len(mpv.playlist)
             /\ mpv' = IF ok /\ removes THEN Removed(mpv, c, call.arg) ELSE mpv
             /\ LET rest == IF ok THEN Tail(loop[c].pending) ELSE <<>>
                IN LoopAt(c, IF rest = <<>> THEN "select" ELSE "call", Frame("none", 0), rest,
                          <<Entry(IF ok THEN "call" ELSE "failed_call", call.op, call.arg)>>)
    /\ UNCHANGED <<pool, hist, pc, channel_id, hs_fail, initial_state, cause, receiver,
                   socket, observers, calls, released, counter_queue, connection_count,
                   notifier, event_stream, event_branch, process, handled, status>>

\* a backend call of handle_message returns: Ok, and the match arm goes on to
\* its next call, or Err, which `?` returns to connection_loop, where it is
\* logged; playlist_remove_id removes the entry that is at the index now
CallReturns(c) ==
    /\ pc[c] = "active"
    /\ loop[c].at = "call"
    /\ LET call == Head(loop[c].pending)
           removes == call.op = "playlist_remove_id"
       IN \E ok \in BOOLEAN :
             /\ (ok /\ removes) => call.arg < Len(mpv.playlist)
             /\ mpv' = IF ok /\ removes THEN Removed(mpv, c, call.arg) ELSE mpv
             /\ LET rest == IF ok THEN Tail(loop[c].pending) ELSE <<>>
                IN LoopAt(c, IF rest = <<>> THEN "select" ELSE "call", Frame("none", 0), rest,
                          <<Entry(IF ok THEN "call" ELSE "failed_call", call.op, call.arg)>>)
    /\ UNCHANGED <<pool, hist, pc, channel_id, hs_fail, initial_state, cause, receiver,
                   socket, observers, calls, released, counter_queue, connection_count,
                   notifier, event_stream, event_branch, process, handled, status>>

\* the server after the handshake of its first connection, whose
\* connection_loop has obtained its event stream
LoopInit ==
    /\ pool = request_id(new_with_max_limit(NConns), FALSE).pool
    /\ hist = <<>>
    /\ pc = [c \in Conns |-> IF c = FirstConn THEN "active" ELSE "idle"]
    /\ channel_id = [c \in Conns |-> IF c = FirstConn THEN 1 ELSE 0]
    /\ hs_fail = [c \in Conns |-> "none"]
    /\ initial_state = [c \in Conns |-> -1]
    /\ cause = [c \in Conns |-> "none"]
    /\ receiver = [c \in Conns |->
                     IF c = FirstConn THEN get_id_count_watch_receiver(pool) ELSE "none"]
    /\ socket = [c \in Conns |-> IF c = FirstConn THEN Frame("initial_state", id_count(pool))
                                 ELSE Frame("none", 0)]
    /\ observers = Subscribed(FirstConn, Len(DEFAULT_PROPERTY_SUBSCRIPTIONS))
    /\ calls = [c \in Conns |-> [unobserve |-> 0, release |-> 0, disconnected |-> 0]]
    /\ released = [c \in Conns |-> "none"]
    /\ counter_queue = <<"Connected">>
    /\ connection_count = 0
    /\ notifier = "starting"
    /\ event_stream = <<>>
    /\ event_branch = "enabled"
    /\ process = "running"
    /\ handled = [frame |-> NoMessage, result |-> "none", calls |-> <<>>]
    /\ mpv = [IdleMpv EXCEPT !.playlist = [i \in 1..PlaylistLen |-> i - 1]]
    /\ loop = [c \in Conns |-> IF c = FirstConn THEN [NoLoop EXCEPT !.at = "select"]
                               ELSE NoLoop]
    /\ status = [playing |-> FALSE, current_song |-> None, line |-> NoLine, emissions |-> 0]

LoopNext ==
    \/ SelectWatch(FirstConn)
    \/ \E message \in LoopFrames :
          \E xs \in IF message.ws = "ping" THEN PingPayloads ELSE {0} :
             SelectRecv(FirstConn, message, xs)
    \/ \E event \in EventPayloads : BackendEvent(event)
    \/ \E item \in LoopStreamItems : SelectEvent(FirstConn, item)
    \/ SendReturns(FirstConn)
    \/ CallReturns(FirstConn)
    \/ unobserve_property(FirstConn)
    \/ ReleaseChannelId(FirstConn)
    \/ SendDisconnected(FirstConn)

LoopSpec == LoopInit /\ [][LoopNext]_vars

(***************************************************************************)
(* GapSpec: the first connection from the moment get_initial_state has     *)
(* read the backend's pause property, and a backend whose pause property   *)
(* changes                                                                 *)
(***************************************************************************)
\* the value of pause, as an event carries it and as the snapshot holds it
PauseValue(paused) == IF paused THEN 1 ELSE 0

\* connection_loop: let mut event_stream = mpv.get_event_stream().await; the
\* stream yields what is broadcast from now on
get_event_stream(c) ==
    /\ pc[c] = "active"
    /\ loop[c].at = "none"
    /\ loop' = [loop EXCEPT ![c] = [@ EXCEPT !.at = "select", !.stream = <<>>]]
    /\ UNCHANGED <<pool, hist, pc, channel_id, hs_fail, initial_state, cause, receiver,
                   socket, observers, calls, released, counter_queue, connection_count,
                   notifier, event_stream, event_branch, process, handled, mpv, status>>

PropertyChangesMutBuffered ==
    /\ \A c \in Conns : Len(loop[c].stream) < MaxPending
    /\ mpv' = [mpv EXCEPT !.pause = ~@]
    /\ LET sent == IF \E o \in observers : o.property = "pause"
                   THEN [c \in Conns |->
                            [loop[c] EXCEPT !.stream = Append(@, PauseValue(~mpv.pause))]]
                   ELSE loop
       IN loop' = [c \in Conns |->
                     IF loop[c].at = "none" /\ loop[c].snapshot # -1
                     THEN [sent[c] EXCEPT !.gap = pc[c]] ELSE sent[c]]
    /\ UNCHANGED <<pool, hist, pc, channel_id, hs_fail, initial_state, cause, receiver,
                   socket, observers, calls, released, counter_queue, connection_count,
                   notifier, event_stream, event_branch, process, handled, status>>

\* the backend's pause property changes; when the property is observed, the
\* backend emits a property-change event with the new value
PropertyChanges ==
    /\ \A c \in Conns : Len(loop[c].stream) < MaxPending
    /\ mpv' = [mpv EXCEPT !.pause = ~@]
    /\ LET sent == IF \E o \in observers : o.property = "pause"
                   THEN Broadcast(loop, PauseValue(~mpv.pause))
                   ELSE loop
       IN loop' = [c \in Conns |->
                     IF loop[c].at = "none" /\ loop[c].snapshot # -1
                     THEN [sent[c] EXCEPT !.gap = pc[c]] ELSE sent[c]]
    /\ UNCHANGED <<pool, hist, pc, channel_id, hs_fail, initial_state, cause, receiver,
                   socket, observers, calls, released, counter_queue, connection_count,
                   notifier, event_stream, event_branch, process, handled, status>>

\* the server when get_initial_state of its first connection has returned
GapInit ==
    /\ pool = request_id(new_with_max_limit(NConns), FALSE).pool
    /\ hist = <<>>
    /\ pc = [c \in Conns |-> IF c = FirstConn THEN "send_initial" ELSE "idle"]
    /\ channel_id = [c \in Conns |-> IF c = FirstConn THEN 1 ELSE 0]
    /\ hs_fail = [c \in Conns |-> "none"]
    /\ initial_state = [c \in Conns |-> IF c = FirstConn THEN id_count(pool) ELSE -1]
    /\ cause = [c \in Conns |-> "none"]
    /\ receiver = [c \in Conns |-> "none"]
    /\ socket = [c \in Conns |-> Frame("none", 0)]
    /\ observers = {}
    /\ calls = [c \in Conns |-> [unobserve |-> 0, release |-> 0, disconnected |-> 0]]
    /\ released = [c \in Conns |-> "none"]
    /\ counter_queue = <<"Connected">>
    /\ connection_count = 0
    /\ notifier = "starting"
    /\ event_stream = <<>>
    /\ event_branch = "enabled"
    /\ process = "running"
    /\ handled = [frame |-> NoMessage, result |-> "none", calls |-> <<>>]
    /\ mpv \in MpvStates
    /\ loop = [c \in Conns |-> IF c = FirstConn
                               THEN [NoLoop EXCEPT !.snapshot = PauseValue(mpv.pause)]
                               ELSE NoLoop]
    /\ status = [playing |-> FALSE, current_song |-> None, line |-> NoLine, emissions |-> 0]

GapNext ==
    \/ SendInitialState(FirstConn)
    \/ setup_default_subscribes(FirstConn)
    \/ get_event_stream(FirstConn)
    \/ PropertyChanges
    \/ \E item \in LoopStreamItems : SelectEvent(FirstConn, item)
    \/ SendReturns(FirstConn)
    \/ NotifierStart

GapSpec == GapInit /\ [][GapNext]_vars

(***************************************************************************)
(* PlaylistSpec: every connection has a session in connection_loop, and    *)
(* each observer sends one PlaylistRemove command                          *)
(***************************************************************************)
\* the pool after n request_id calls
RECURSIVE Requested(_, _)
Requested(p, n) == IF n = 0 THEN p ELSE request_id(Requested(p, n - 1), FALSE).pool

\* the PlaylistRemove commands the observers of PlaylistSpec send
ConcurrentRemoves ==
    {Message("text", TRUE, "playlist_remove", ps) : ps \in {<<0, 1>>, <<0>>, <<2, 0>>}}

\* the observer of connection c sends its command, which select hands to the loop
IssueRemove(c, message) ==
    /\ loop[c].log = <<>>
    /\ SelectRecv(c, message, 0)

\* the server after the handshakes of all its connections, made one after the
\* other; no session has taken anything from its select yet
PlaylistInit ==
    /\ pool = Requested(new_with_max_limit(NConns), NConns)
    /\ hist = <<>>
    /\ pc = [c \in Conns |-> "active"]
    /\ channel_id = [c \in Conns |-> c]
    /\ hs_fail = [c \in Conns |-> "none"]
    /\ initial_state = [c \in Conns |-> -1]
    /\ cause = [c \in Conns |-> "none"]
    /\ receiver = [c \in Conns |-> "changed"]
    /\ socket = [c \in Conns |-> Frame("initial_state", c)]
    /\ observers = UNION {Subscribed(c, Len(DEFAULT_PROPERTY_SUBSCRIPTIONS)) : c \in Conns}
    /\ calls = [c \in Conns |-> [unobserve |-> 0, release |-> 0, disconnected |-> 0]]
    /\ released = [c \in Conns |-> "none"]
    /\ counter_queue = [i \in 1..NConns |-> "Connected"]
    /\ connection_count = 0
    /\ notifier = "starting"
    /\ event_stream = <<>>
    /\ event_branch = "enabled"
    /\ process = "running"
    /\ handled = [frame |-> NoMessage, result |-> "none", calls |-> <<>>]
    /\ mpv = [IdleMpv EXCEPT !.playlist = [i \in 1..PlaylistLen |-> i - 1]]
    /\ loop = [c \in Conns |-> [NoLoop EXCEPT !.at = "select"]]
    /\ status = [playing |-> FALSE, current_song |-> None, line |-> NoLine, emissions |-> 0]

PlaylistNext ==
    \E c \in Conns :
        \/ \E message \in ConcurrentRemoves : IssueRemove(c, message)
        \/ CallReturns(c)

PlaylistSpec == PlaylistInit /\ [][PlaylistNext]_vars

(***************************************************************************)
(* NotifierSpec: the status notifier task (start_status_notifier_thread)   *)
(* with both sources of its select loop, and main's select on its handle   *)
(***************************************************************************)
\* most ConnectionEvents waiting in the channel
MaxQueued == 2
\* most connections the senders report
MaxConnectionCount == 3
\* most items waiting on the notifier's event stream
MaxStream == 2

\* what the backend event stream yields: a property-change event, another
\* event, a read error
NotifierStreamItems == {"property_change", "other_event", "error"}

\* a task sends a ConnectionEvent (handle_connection does, at its start and end)
ConnectionEventSent(event) ==
    /\ process = "running"
    /\ notifier # "panicked"
    /\ Len(counter_queue) < MaxQueued
    /\ event = "Connected" => connection_count < MaxConnectionCount
    /\ counter_queue' = Append(counter_queue, event)
    /\ UNCHANGED <<pool, hist, pc, channel_id, hs_fail, initial_state, cause, receiver,
                   socket, observers, calls, released, connection_count, notifier,
                   mainvars>>

\* the backend emits an item on the notifier's event stream
BackendEmits(item) ==
    /\ process = "running"
    /\ notifier = "running"
    /\ Len(event_stream) < MaxStream
    /\ event_stream' = Append(event_stream, item)
    /\ UNCHANGED <<pool, hist, pc, channel_id, hs_fail, initial_state, cause, receiver,
                   socket, observers, calls, released, counter_queue, connection_count,
                   notifier, event_branch, process, handled, tracevars, status>>

\* MpvDataType, as far as the notifier tells its variants apart, and no data
NoData == [type |-> "None", string |-> "", bool |-> FALSE]
String(s) == [type |-> "String", string |-> s, bool |-> FALSE]
Bool(b) == [type |-> "Bool", string |-> "", bool |-> b]

\* names and data of the property-change events the notifier reads: the two
\* properties it observes and one it does not
PropertyNames == {"media-title", "pause", "volume"}
PropertyData == {NoData, String("b"), Bool(TRUE), Bool(FALSE)}

PropertyChangeMutPauseAsPlaying(st, name, data) ==
    IF name = "media-title" /\ data.type = "String"
    THEN [st EXCEPT !.current_song = Some(data.string)]
    ELSE IF name = "media-title" /\ data.type = "None"
    THEN [st EXCEPT !.current_song = None]
    ELSE IF name = "pause" /\ data.type = "Bool"
    THEN [st EXCEPT !.playing = data.bool]
    ELSE st

\* the match on (name, data) of a property-change event
PropertyChange(st, name, data) ==
    IF name = "media-title" /\ data.type = "String"
    THEN [st EXCEPT !.current_song = Some(data.string)]
    ELSE IF name = "media-title" /\ data.type = "None"
    THEN [st EXCEPT !.current_song = None]
    ELSE IF name = "pause" /\ data.type = "Bool"
    THEN [st EXCEPT !.playing = ~data.bool]
    ELSE st

\* the notifier's select branch
\*   Some(Ok(Event::PropertyChange { .. })) = event_stream.next()
\* an item that matches runs the handler, which ends with send_play_status, and
\* the loop enters select anew; an item that does not match is dropped and
\* disables the branch for the rest of this select call, which goes on waiting
\* for the other branch
NotifierEvent ==
    /\ notifier = "running"
    /\ event_branch = "enabled"
    /\ event_stream # <<>>
    /\ event_stream' = Tail(event_stream)
    /\ event_branch' = IF Head(event_stream) = "property_change" THEN "enabled"
                       ELSE "disabled"
    /\ \E name \in PropertyNames, data \in PropertyData :
          status' = IF Head(event_stream) = "property_change"
                    THEN Emit(PropertyChange(status, name, data), connection_count)
                    ELSE status
    /\ UNCHANGED <<pool, hist, pc, channel_id, hs_fail, initial_state, cause, receiver,
                   socket, observers, calls, released, counter_queue, connection_count,
                   notifier, process, handled, tracevars>>

\* main's select: the notifier's JoinHandle resolves once the task has ended
\* (it only ends by a panic); main calls shutdown and returns
MainSelect ==
    /\ process = "running"
    /\ notifier = "panicked"
    /\ process' = "exited"
    /\ UNCHANGED <<pool, hist, pc, channel_id, hs_fail, initial_state, cause, receiver,
                   socket, observers, calls, released, counter_queue, connection_count,
                   notifier, event_stream, event_branch, handled, tracevars, status>>

NotifierInit ==
    /\ pool = new_with_max_limit(NConns)
    /\ hist = <<>>
    /\ mpv \in MpvStates
    /\ SysInit

NotifierNext ==
    \/ NotifierStart
    \/ NotifierRecv
    \/ NotifierEvent
    \/ MainSelect
    \/ \E event \in {"Connected", "Disconnected"} : ConnectionEventSent(event)
    \/ \E item \in NotifierStreamItems : BackendEmits(item)

NotifierSpec == NotifierInit /\ [][NotifierNext]_vars

(***************************************************************************)
(* Reading the call history of PoolSpec                                    *)
(***************************************************************************)
Front(s) == SubSeq(s, 1, Len(s) - 1)

\* the ids issued by a successful request_id and not released since
RECURSIVE InUseAfter(_)
InUseAfter(h) ==
    IF h = <<>> THEN {}
    ELSE LET e == Last(h)
             before == InUseAfter(Front(h))
         IN IF e.ret.tag # "Ok" THEN before
            ELSE IF e.op = "request_id" THEN before \cup {e.ret.val}
            ELSE before \ {e.arg}

\* every release_id of h targeted an id in use at the time of the call
Paired(h) ==
    \A i \in 1..Len(h) :
        h[i].op = "release_id" => h[i].arg \in InUseAfter(SubSeq(h, 1, i - 1))

NumOk(h, op) == Cardinality({i \in 1..Len(h) : h[i].op = op /\ h[i].ret.tag = "Ok"})

\* this step is a call of op on the pool
CallStep(op) == Len(hist') = Len(hist) + 1 /\ Last(hist').op = op

\* h is n successful allocations followed by the release of the k smallest of them
AllocsThenSmallestReleased(h) ==
    \E n \in 1..Len(h) :
        LET k == Len(h) - n
            A == {h[i].ret.val : i \in 1..n}
            R == {h[i].arg : i \in (n + 1)..Len(h)}
        IN /\ k >= 1
           /\ \A i \in 1..n : h[i].op = "request_id" /\ h[i].ret.tag = "Ok"
           /\ \A i \in (n + 1)..Len(h) : h[i].op = "release_id" /\ h[i].ret.tag = "Ok"
           /\ R \subseteq A
           /\ \A r \in R : \A a \in A \ R : r < a

ReleasedIn(h) == {h[i].arg : i \in {j \in 1..Len(h) : h[j].op = "release_id"}}

(***************************************************************************)
(* Claims about the pool (PoolSpec)                                        *)
(***************************************************************************)
\* C2 (as claimed): release_id(id) of an id in 0..=max_id that is not in use
\* (never issued, or already released) returns IdNotInUse(id) and leaves the
\* pool and its occupancy signal unchanged.
C2_ReleaseOfUnusedIdFails ==
    [][\A id \in 0..pool.max_id :
          (CallStep("release_id") /\ Last(hist').arg = id /\ id \notin InUseAfter(hist))
              => (Last(hist').ret = Err("IdNotInUse", id) /\ pool' = pool)]_vars

\* C3: while every release_id targets an id in use, id_count() equals the number
\* of successful request_id minus the number of successful release_id, and lies
\* in 0..max_id.
C3_OccupancyIsAllocsMinusReleases ==
    Paired(hist) =>
        /\ ~pool.panicked
        /\ id_count(pool) = NumOk(hist, "request_id") - NumOk(hist, "release_id")
        /\ 0 <= id_count(pool)
        /\ id_count(pool) <= pool.max_id

C3_Witness ==
    /\ Paired(hist)
    /\ Len(hist) >= 4
    /\ NumOk(hist, "release_id") >= 2

\* C8: request_id on an exhausted pool (free set empty, high-water mark = max_id)
\* returns NoFreeIds and leaves the pool and its occupancy signal unchanged.
C8_ExhaustedRequestFails ==
    [][(CallStep("request_id") /\ pool.free_ids = {} /\ pool.id_count = pool.max_id)
          => (Last(hist').ret = Err("NoFreeIds", 0) /\ pool' = pool)]_vars

C8_Witness ==
    /\ hist # <<>>
    /\ Last(hist).op = "request_id"
    /\ Last(hist).ret.tag = "NoFreeIds"
    /\ pool.free_ids = {}
    /\ id_count(pool) = pool.max_id

\* C9: request_id returns the smallest free id when the free set is not empty;
\* it raises the high-water mark only when the free set is empty, and then
\* returns the new mark (1 on a fresh pool); after n allocations and the release
\* of the k smallest, it returns the smallest released id.
C9_SmallestFreeFirst ==
    [][CallStep("request_id") =>
          LET r == Last(hist').ret
          IN /\ pool.free_ids # {} =>
                  /\ r = Ok(SetMin(pool.free_ids))
                  /\ pool'.id_count = pool.id_count
                  /\ pool'.free_ids = pool.free_ids \ {r.val}
             /\ (pool.free_ids = {} /\ r.tag = "Ok") =>
                  /\ r.val = pool.id_count + 1
                  /\ pool'.id_count = r.val
             /\ pool'.id_count # pool.id_count => pool.free_ids = {}
             /\ hist = <<>> => r = Ok(1)
             /\ AllocsThenSmallestReleased(hist) => r = Ok(SetMin(ReleasedIn(hist)))]_vars

C9_Witness ==
    /\ Len(hist) = 5
    /\ AllocsThenSmallestReleased(Front(hist))
    /\ Cardinality(ReleasedIn(Front(hist))) = 2
    /\ Last(hist).op = "request_id"
    /\ Last(hist).ret = Ok(1)

\* the calls allocate, allocate, release(1)
IsAllocAllocRelease1(h) ==
    /\ Len(h) = 3
    /\ h[1].op = "request_id"
    /\ h[2].op = "request_id"
    /\ h[3].op = "release_id" /\ h[3].arg = 1

\* C10: a successful request_id / release_id publishes exactly one update, after
\* which the occupancy signal holds id_count(); a failed call publishes none; a
\* receiver read after each call of allocate, allocate, release(1) sees 0, 1, 2, 1.
C10_SignalFollowsOccupancy ==
    [][Len(hist') = Len(hist) + 1 =>
          LET e == Last(hist')
          IN /\ e.ret.tag = "Ok" =>
                  /\ pool'.watch = id_count(pool')
                  /\ pool'.version = pool.version + 1
                  /\ e.seen = id_count(pool')
             /\ e.ret.tag \in {"NoFreeIds", "IdNotInUse", "IdOutOfBound"} =>
                  /\ pool'.version = pool.version
                  /\ pool'.watch = pool.watch
             /\ hist = <<>> => WatchBorrow(pool) = 0
             /\ IsAllocAllocRelease1(hist') =>
                  <<hist'[1].seen, hist'[2].seen, hist'[3].seen>> = <<1, 2, 1>>]_vars

C10_Witness ==
    /\ IsAllocAllocRelease1(hist)
    /\ \A i \in 1..3 : hist[i].ret.tag = "Ok"
    /\ WatchBorrow(pool) = 1

(***************************************************************************)
(* FairSpec: the scheduler runs every task that can take a step; a backend *)
(* call returns (with a result or an error); the notifier keeps receiving. *)
(***************************************************************************)
DrainStep(c) == unobserve_property(c) \/ ReleaseChannelId(c) \/ SendDisconnected(c)

FairSpec ==
    /\ Spec
    /\ \A c \in Conns : WF_vars(DrainStep(c))
    /\ WF_vars(NotifierStart)
    /\ WF_vars(NotifierRecv)

(***************************************************************************)
(* Claims about the server (Spec, FairSpec)                                *)
(***************************************************************************)
\* the session of connection c has ended: handle_connection returned or unwound
SessionEnded(c) == pc[c] \in {"closed", "panicked"}

\* connection c holds an identity: websocket_handler obtained it and no
\* release_id has returned it
Holds(c) == channel_id[c] # 0 /\ released[c] # "Ok"

\* C1 (as claimed): whatever ends a session - also a failure while sending the
\* initial_state frame or while subscribing - its identity has been released when
\* it has ended; once every connection's session has ended, occupancy is 0.
C1_EndedSessionReleasedItsIdentity ==
    /\ \A c \in Conns : SessionEnded(c) => ~Holds(c)
    /\ (\A c \in Conns : SessionEnded(c)) => id_count(pool) = 0

Draining == {"unobserve", "release", "notify"}

\* the drain calls made by a session that stands at p
ExpectedCalls(p) ==
    [unobserve |-> IF p \in {"release", "notify", "closed"} THEN 1 ELSE 0,
     release |-> IF p \in {"notify", "closed"} THEN 1 ELSE 0,
     disconnected |-> IF p = "closed" THEN 1 ELSE 0]

\* C4: when the backend event stream ends or yields an error while a session is
\* Active, the session leaves Active for its drain; from there it calls
\* unobserve_property for its id, release_id for its id (id_count() goes down by
\* exactly 1) and sends Disconnected, each once and in this order, and it
\* reaches Closed, where it stays.
C4_BackendEndDrainsOnce ==
    /\ [][\A c \in Conns :
             /\ (pc[c] = "active" /\ \E item \in {"error", "end"} : Event(c, item))
                    => (pc'[c] = "unobserve" /\ cause'[c] = "backend_gone")
             /\ cause'[c] = "backend_gone" =>
                    /\ pc'[c] \in Draining \cup {"closed"}
                    /\ calls'[c] = ExpectedCalls(pc'[c])
                    /\ pc'[c] \in {"notify", "closed"} => released'[c] = "Ok"
             /\ (cause[c] = "backend_gone" /\ pc'[c] # pc[c]) =>
                    /\ pc[c] = "unobserve" =>
                          /\ pc'[c] = "release"
                          /\ observers' \in {observers,
                                             {o \in observers : o.id # channel_id[c]}}
                    /\ pc[c] = "release" =>
                          /\ pc'[c] = "notify"
                          /\ id_count(pool') = id_count(pool) - 1
                          /\ pool'.free_ids = pool.free_ids \cup {channel_id[c]}
                    /\ pc[c] = "notify" =>
                          /\ pc'[c] = "closed"
                          /\ notifier # "panicked" =>
                                counter_queue' = Append(counter_queue, "Disconnected")
                    /\ pc[c] # "closed"]_vars
    /\ \A c \in Conns : (cause[c] = "backend_gone") ~> (pc[c] = "closed")

C4_Witness ==
    \E c \in Conns :
        /\ cause[c] = "backend_gone"
        /\ pc[c] = "closed"
        /\ calls[c] = [unobserve |-> 1, release |-> 1, disconnected |-> 1]
        /\ released[c] = "Ok"

\* C5 (as claimed): a session whose handshake step failed (sending the
\* initial_state frame, a subscribe call) is Active or draining or Closed: the
\* failure never ends the session before its drain steps.
C5_HandshakeFailureStillActive ==
    \A c \in Conns :
        hs_fail[c] # "none" => pc[c] \in {"active", "closed"} \cup Draining

\* C6 (as claimed): every observer a session registered during its handshake
\* carries the session's own channel_id, the id its drain passes to
\* unobserve_property.
C6_SubscribedWithOwnIdentity ==
    \A o \in observers : o.by \in Conns => o.id = channel_id[o.by]

\* C7: no two connections hold the same identity at the same time; the
\* identities held are exactly those the pool counts as in use; as long as no
\* release_id has been called, the identities issued are exactly 1..N.
C7_DistinctIdentities ==
    /\ \A c, d \in Conns : (c # d /\ Holds(c) /\ Holds(d)) => channel_id[c] # channel_id[d]
    /\ {channel_id[c] : c \in {d \in Conns : Holds(d)}} = (1..pool.id_count) \ pool.free_ids
    /\ (\A c \in Conns : calls[c].release = 0) =>
          {channel_id[c] : c \in {d \in Conns : channel_id[d] # 0}}
              = 1..Cardinality({d \in Conns : channel_id[d] # 0})

C7_Witness ==
    /\ \A c \in Conns : pc[c] = "active" /\ Holds(c)
    /\ {channel_id[c] : c \in Conns} = 1..NConns

(***************************************************************************)
(* More claims about the pool (PoolSpec)                                   *)
(***************************************************************************)
\* C11: release_id(id) returns IdOutOfBound(id) exactly when id > max_id, also
\* though such an id is not in use, and then leaves the pool and its watch
\* channel unchanged; a release_id(id) that returns Ok has added id, which was not
\* free, to free_ids and has changed neither max_id nor the high-water mark.
C11_ReleaseOutOfBoundAndSuccess ==
    [][CallStep("release_id") =>
          LET e == Last(hist')
          IN /\ e.arg > pool.max_id => (e.ret = Err("IdOutOfBound", e.arg) /\ pool' = pool)
             /\ e.ret.tag = "IdOutOfBound" => e.arg > pool.max_id
             /\ e.ret.tag = "Ok" =>
                   /\ e.arg \notin pool.free_ids
                   /\ pool'.free_ids = pool.free_ids \cup {e.arg}
                   /\ pool'.max_id = pool.max_id
                   /\ pool'.id_count = pool.id_count
                   /\ pool'.receiver_version = pool.receiver_version]_vars

C11_Witness ==
    /\ \E i \in 1..Len(hist) : hist[i].op = "release_id" /\ hist[i].ret.tag = "IdOutOfBound"
    /\ \E i \in 1..Len(hist) :
          hist[i].op = "release_id" /\ hist[i].ret.tag = "Ok" /\ hist[i].arg = pool.max_id

(***************************************************************************)
(* More claims about the server (Spec, FairSpec)                           *)
(***************************************************************************)
\* C12: whatever ended connection_loop, the drain calls unobserve_property, then
\* release_id, then sends Disconnected; the step after each is taken whether the
\* call succeeded or failed (a backend error, a release error, a send on the
\* channel whose receiver is gone), and the session reaches Closed.
C12_DrainOrderBestEffort ==
    /\ [][\A c \in Conns :
             /\ pc'[c] \in Draining \cup {"closed"} => calls'[c] = ExpectedCalls(pc'[c])
             /\ pc'[c] \notin Draining \cup {"closed"} => calls'[c] = ExpectedCalls("unobserve")
             /\ (pc[c] = "unobserve" /\ pc'[c] # pc[c]) => pc'[c] = "release"
             /\ (pc[c] = "release" /\ pc'[c] # pc[c]) => pc'[c] = "notify"
             /\ (pc[c] = "notify" /\ pc'[c] # pc[c]) => pc'[c] = "closed"
             /\ (pc[c] \notin Draining /\ pc'[c] # pc[c]) => pc'[c] \notin {"release", "notify", "closed"}
             /\ (pc[c] = "notify" /\ notifier = "panicked") => ENABLED SendDisconnected(c)]_vars
    /\ \A c \in Conns : (pc[c] = "unobserve") ~> (pc[c] = "closed")

\* a session has made its unobserve_property and release_id calls and stands
\* before a Disconnected that cannot be delivered: the notifier task is gone
C12_Witness ==
    \E c \in Conns :
        /\ pc[c] = "notify"
        /\ calls[c] = ExpectedCalls("notify")
        /\ released[c] = "Ok"
        /\ notifier = "panicked"
        /\ cause[c] = "error"

(***************************************************************************)
(* Claims about a session's inbound frames (SessionSpec)                   *)
(***************************************************************************)
FailedInHandler == {"decode_error", "backend_error"}

\* C13: when a text frame of valid JSON that is no WSCommand, or a command one
\* of whose backend calls failed, has been handled, the session is still in
\* connection_loop and nothing was written to the socket for the frame; and a
\* session in connection_loop executes a valid command: its backend call is made.
C13_HandlerFailureKeepsSession ==
    /\ [][(handled' # handled /\ handled'.result \in FailedInHandler) =>
             /\ handled'.frame.ws = "text" /\ handled'.frame.json
             /\ pc'[FirstConn] = "active"
             /\ pc' = pc /\ cause' = cause /\ socket' = socket]_vars
    /\ [](pc[FirstConn] = "active" =>
             ENABLED (/\ RecvFrame(FirstConn, Message("text", TRUE, "toggle_playback", <<>>))
                      /\ handled'.result = "ok"
                      /\ handled'.calls = <<[op |-> "set_playback", arg |-> 0]>>))

C13_Witness ==
    /\ handled.result = "backend_error"
    /\ handled.frame.type = "playlist_remove"
    /\ Len(handled.calls) = 2
    /\ pc[FirstConn] = "active"

\* C14 (as claimed): when a text frame that is not JSON, a binary frame or an
\* unsolicited pong has been handled, the session is still Active: it has not
\* left connection_loop for its drain.
C14_ProtocolViolationKeepsSession ==
    [][(handled' # handled /\ handled'.result \in {"not_json", "binary", "pong"}) =>
          pc'[FirstConn] = "active"]_vars

\* the multiset of the entries of s
BagOf(s) == [x \in {s[i] : i \in 1..Len(s)} |-> Cardinality({i \in 1..Len(s) : s[i] = x})]

\* C16: the playlist_remove_id calls made for PlaylistRemove{positions} are in
\* non-increasing position order; when no call fails there is one call per list
\* entry, with the entry's position; when a call fails, the calls made are the
\* first ones of that order, the failing one last.
C16_PlaylistRemoveHighestFirst ==
    (handled.frame.type = "playlist_remove" /\ handled.result # "none") =>
        LET positions == handled.frame.positions
            args == [i \in 1..Len(handled.calls) |-> handled.calls[i].arg]
        IN /\ \A i \in 1..Len(handled.calls) : handled.calls[i].op = "playlist_remove_id"
           /\ \A i, j \in 1..Len(args) : i < j => args[i] >= args[j]
           /\ handled.result = "ok" => BagOf(args) = BagOf(positions)
           /\ handled.result = "backend_error" =>
                 /\ Len(args) >= 1 /\ Len(args) <= Len(positions)
                 /\ \A x \in DOMAIN BagOf(args) :
                       /\ x \in DOMAIN BagOf(positions)
                       /\ BagOf(args)[x] <= BagOf(positions)[x]
                 /\ \A i \in 1..Len(positions) :
                       positions[i] > args[Len(args)] =>
                           BagOf(args)[positions[i]] = BagOf(positions)[positions[i]]

C16_Witness ==
    /\ handled.frame.positions = <<2, 0, 3>>
    /\ handled.result = "ok"
    /\ handled.calls = <<[op |-> "playlist_remove_id", arg |-> 3],
                         [op |-> "playlist_remove_id", arg |-> 2],
                         [op |-> "playlist_remove_id", arg |-> 0]>>

(***************************************************************************)
(* Claims about rejected connections (Spec)                                *)
(***************************************************************************)
\* C15: websocket_handler rejects a connection exactly when request_id returns
\* NoFreeIds, i.e. when every identity is in use; the rejection leaves the pool,
\* the counter channel and the process as they were, the connection gets no
\* identity and never runs a session or a drain step; as soon as an identity has
\* been released, request_id succeeds again for the next connection.
C15_ExhaustedPoolRejects ==
    /\ [][\A c \in Conns :
             /\ (pc[c] = "idle" /\ pc'[c] # "idle") =>
                   (pc'[c] = "rejected" <=> id_count(pool) = pool.max_id)
             /\ (pc[c] = "idle" /\ pc'[c] = "rejected") =>
                   /\ pool' = pool
                   /\ counter_queue' = counter_queue
                   /\ connection_count' = connection_count
                   /\ process' = process
                   /\ \A d \in Conns \ {c} : pc'[d] = pc[d]
             /\ pc[c] = "rejected" => pc'[c] = "rejected"]_vars
    /\ [](\A c \in Conns :
             pc[c] = "rejected" =>
                /\ channel_id[c] = 0
                /\ calls[c] = ExpectedCalls("idle")
                /\ socket[c] = Frame("none", 0)
                /\ process = "running")
    /\ [](id_count(pool) < pool.max_id =>
             \A overflow_checks \in BOOLEAN : request_id(pool, overflow_checks).ret.tag = "Ok")

\* a connection was rejected, and since then an identity has been released:
\* request_id succeeds for the next connection
C15_Witness ==
    \E c, d \in Conns :
        /\ pc[c] = "rejected"
        /\ pc[d] = "closed" /\ released[d] = "Ok"
        /\ request_id(pool, FALSE).ret = Ok(channel_id[d])

(***************************************************************************)
(* Claims about the status notifier and main (NotifierSpec)                *)
(***************************************************************************)
\* C17: connection_count is never negative; receiving Connected adds 1,
\* receiving Disconnected subtracts 1, and receiving Disconnected at 0 leaves 0.
C17_ConnectionCountNeverNegative ==
    /\ [](connection_count >= 0)
    /\ [][(notifier = "running" /\ notifier' = "running" /\ Len(counter_queue') < Len(counter_queue)) =>
             /\ counter_queue' = Tail(counter_queue)
             /\ connection_count' =
                   IF Head(counter_queue) = "Connected" THEN connection_count + 1
                   ELSE IF connection_count = 0 THEN 0
                   ELSE connection_count - 1]_vars
    /\ [][connection_count' # connection_count => Len(counter_queue') < Len(counter_queue)]_vars

\* the notifier, at count 0, has a Disconnected to receive next
C17_Witness ==
    /\ notifier = "running"
    /\ connection_count = 0
    /\ counter_queue = <<"Disconnected", "Connected">>

\* C18 (as claimed): whenever the notifier's loop runs and a source holds an
\* item, the loop can take that item without the other source producing
\* anything - also after the event stream has yielded an item that is no
\* property-change event.
C18_NeitherSourceStarves ==
    notifier = "running" =>
        /\ event_stream # <<>> => ENABLED NotifierEvent
        /\ counter_queue # <<>> => ENABLED NotifierRecv

\* C19 (as claimed): the process keeps running, whatever fails in the notifier
\* task, its observe_property / get_property calls at its start included.
C19_CoreFailureKeepsProcess ==
    process = "running"

(***************************************************************************)
(* Claims about the occupancy signal in a session (FairLoopSpec)           *)
(***************************************************************************)
\* FairSpec, and a select that takes its watch branch when that stays ready;
\* socket.send returns
FairLoopSpec == FairSpec /\ \A c \in Conns : WF_vars(CountChanged(c))

\* C20: every successful request_id / release_id marks the watch receiver of
\* every session in connection_loop as changed; a session whose receiver is
\* changed leaves connection_loop or marks it seen, and the step that marks it
\* seen writes a connection_count frame with id_count() as it is then (values
\* in between are never sent); whatever the receivers of the sessions have or
\* have not read, the next connection's request_id and a draining session's
\* release_id can be taken.
C20_OccupancyReachesSessions ==
    /\ [][\A c \in Conns :
             /\ (pool'.version # pool.version /\ pc[c] = "active" /\ pc'[c] = "active")
                    => receiver'[c] = "changed"
             /\ (pc[c] = "active" /\ receiver[c] = "changed" /\ receiver'[c] = "seen")
                    => socket'[c] = Frame("connection_count", id_count(pool'))
             /\ (pc[c] = "active" /\ receiver[c] = "seen" /\ pc'[c] = "active"
                   /\ pool'.version = pool.version)
                    => receiver'[c] = "seen"]_vars
    /\ [](\A c \in Conns :
             /\ pc[c] = "release" => ENABLED ReleaseChannelId(c)
             /\ (pc[c] = "idle" /\ \A d \in Conns : d < c => pc[d] # "idle")
                    => ENABLED websocket_handler(c))
    /\ \A c \in Conns :
          (pc[c] = "active" /\ receiver[c] = "changed")
              ~> (pc[c] # "active" \/ receiver[c] = "seen")

\* a session that got its identity while another held one has sent the
\* occupancy as it is after the other's release_id
C20_Witness ==
    \E c, d \in Conns :
        /\ pc[c] = "active" /\ receiver[c] = "seen"
        /\ channel_id[d] = 1 /\ channel_id[c] = 2
        /\ released[d] = "Ok"
        /\ socket[c] = Frame("connection_count", id_count(pool))
        /\ id_count(pool) = 1

(***************************************************************************)
(* Claims about the order of a session's frames (LoopSpec)                 *)
(***************************************************************************)
Values(entries) == [i \in 1..Len(entries) |-> entries[i].value]

\* the type of the frame connection_loop writes for an item select handed it
FrameTypeFor(what) ==
    CASE what = "event" -> "event"
      [] what = "ping" -> "pong"
      [] what = "watch" -> "connection_count"
      [] OTHER -> "none"

\* C21: the payloads of the event frames a session has written are the payloads
\* of the events it took from its event stream, in the same order and once each
\* (the frame of the last event may still be in socket.send, or that send has
\* failed and ended the loop); and every frame written follows directly, in the
\* order of what happened in the loop, the item it was written for (an event, a
\* ping, an occupancy change), with that item's payload.
C21_FramesInHandledOrder ==
    \A c \in Conns :
        LET log == loop[c].log
            read == Values(Entries(log, "handled", "event"))
            sent == Values(Entries(log, "sent", "event"))
        IN /\ \/ sent = read
              \/ /\ sent = Front(read)
                 /\ Last(log) = Entry("handled", "event", Last(read))
                 /\ loop[c].at \in {"send", "ended"}
           /\ \A i \in 1..Len(log) :
                 log[i].kind = "sent" =>
                    /\ i > 1
                    /\ log[i - 1].kind = "handled"
                    /\ log[i].what = FrameTypeFor(log[i - 1].what)
                    /\ log[i].value = log[i - 1].value

\* a session has forwarded event 1, answered a ping with payload 2 and
\* forwarded event 0
C21_Witness ==
    LET sent == Entries(loop[FirstConn].log, "sent", "")
    IN /\ Values(sent) = <<1, 2, 0>>
       /\ [i \in 1..3 |-> sent[i].what] = <<"event", "pong", "event">>
       /\ pc[FirstConn] = "active"

(***************************************************************************)
(* Claims about who releases an identity (Spec)                            *)
(***************************************************************************)
\* C22: a session calls release_id at most once, in its own drain, and the call
\* returns Ok (never IdNotInUse or IdOutOfBound); an id enters free_ids only by
\* the release step of the session that holds it; websocket_handler makes no
\* release_id call, neither when it accepts nor when it rejects a connection.
C22_IdentityReleasedOnce ==
    /\ [](\A c \in Conns :
             /\ calls[c].release <= 1
             /\ released[c] \in {"none", "Ok"}
             /\ released[c] = "Ok" <=> calls[c].release = 1
             /\ calls[c].release = 1 => pc[c] \in {"notify", "closed"})
    /\ [][~(pool'.free_ids \subseteq pool.free_ids) =>
             \E c \in Conns :
                /\ pc[c] = "release" /\ pc'[c] = "notify"
                /\ Holds(c)
                /\ pool'.free_ids = pool.free_ids \cup {channel_id[c]}
                /\ calls'[c].release = calls[c].release + 1
                /\ \A d \in Conns \ {c} : calls'[d] = calls[d]]_vars
    /\ [][\A c \in Conns :
             (pc[c] = "idle" /\ pc'[c] # "idle") =>
                 (pool'.free_ids \subseteq pool.free_ids /\ calls' = calls
                    /\ released' = released)]_vars

\* an identity was issued twice, to one connection after the other, and each of
\* the two sessions has released it
C22_Witness ==
    \E c, d \in Conns :
        /\ c # d
        /\ channel_id[c] = channel_id[d] /\ channel_id[c] # 0
        /\ pc[c] = "closed" /\ pc[d] = "closed"
        /\ released[c] = "Ok" /\ released[d] = "Ok"

(***************************************************************************)
(* Claims about the states a session goes through (Spec)                   *)
(***************************************************************************)
\* websocket_handler and handle_connection up to the spawn of connection_loop
Handshaking == {"idle", "upgrading", "connected", "snapshot", "send_initial", "subscribe"}

\* any step of the task of connection c
ConnStep(c) ==
    \/ websocket_handler(c)
    \/ on_upgrade(c)
    \/ SendConnected(c)
    \/ get_initial_state(c)
    \/ SendInitialState(c)
    \/ setup_default_subscribes(c)
    \/ CountChanged(c)
    \/ \E message \in InboundMessages : Recv(c, message)
    \/ \E item \in EventStreamItems : Event(c, item)
    \/ unobserve_property(c)
    \/ ReleaseChannelId(c)
    \/ SendDisconnected(c)

\* a step of connection_loop: a frame is read or written, a command executed
LoopStep(c) ==
    \/ CountChanged(c)
    \/ \E message \in InboundMessages : Recv(c, message)
    \/ \E item \in EventStreamItems : Event(c, item)

\* C23: a session becomes Active only from its handshake, begins its drain only
\* from Active, goes through the drain steps in their order into Closed, and
\* never goes back; from the step that begins the drain on, its socket is
\* dropped (no frame is written) and no step of connection_loop (frame read,
\* command, event, occupancy change) can be taken; Closed is never left, and a
\* Closed session can take no step at all (no pool call, no backend call).
C23_ForwardOnly ==
    /\ [][\A c \in Conns :
             /\ (pc'[c] # pc[c] /\ pc'[c] = "active") => pc[c] = "subscribe"
             /\ (pc'[c] # pc[c] /\ pc'[c] = "unobserve") => pc[c] = "active"
             /\ (pc'[c] # pc[c] /\ pc'[c] = "release") => pc[c] = "unobserve"
             /\ (pc'[c] # pc[c] /\ pc'[c] = "notify") => pc[c] = "release"
             /\ (pc'[c] # pc[c] /\ pc'[c] = "closed") => pc[c] = "notify"
             /\ pc'[c] \in Handshaking => pc[c] \in Handshaking
             /\ pc[c] \in Draining => pc'[c] \in Draining \cup {"closed"}
             /\ pc[c] = "closed" =>
                    /\ pc'[c] = "closed"
                    /\ calls'[c] = calls[c]
                    /\ channel_id'[c] = channel_id[c]
             /\ pc'[c] \in Draining \cup {"closed"} => socket'[c] = Frame("dropped", 0)]_vars
    /\ [](\A c \in Conns :
             /\ pc[c] \in Draining \cup {"closed"} => ~ENABLED LoopStep(c)
             /\ pc[c] = "closed" => ~ENABLED ConnStep(c))

\* one session is Closed after its observer closed it, while another, Active,
\* has just written a connection_count frame
C23_Witness ==
    \E c, d \in Conns :
        /\ pc[c] = "closed" /\ cause[c] = "observer_gone"
        /\ calls[c] = ExpectedCalls("closed")
        /\ pc[d] = "active" /\ socket[d].type = "connection_count"

(***************************************************************************)
(* Claims about a session its observer ends (FairSpec)                     *)
(***************************************************************************)
\* socket.recv() yields None, Some(Err(..)) or Some(Ok(Message::Close(..)))
ObserverGone == {"stream_end", "read_error", "close"}

\* C24: an Active session can always read a close frame, a read error or the
\* end of its inbound stream; the step that reads one takes it out of Active
\* into its drain; and a session that left Active this way reaches Closed with
\* unobserve_property, release_id (Ok) and the Disconnected send each made once.
C24_ObserverGoneDrains ==
    /\ [][\A c \in Conns :
             (pc[c] = "active" /\ \E message \in ObserverGone : Recv(c, message))
                 => (pc'[c] = "unobserve" /\ cause'[c] = "observer_gone")]_vars
    /\ [](\A c \in Conns :
             /\ pc[c] = "active" =>
                    \A message \in ObserverGone :
                        /\ ENABLED Recv(c, message)
                        /\ ~ENABLED (Recv(c, message) /\ pc'[c] = "active")
             /\ cause[c] = "observer_gone" =>
                    /\ pc[c] \in Draining \cup {"closed"}
                    /\ calls[c] = ExpectedCalls(pc[c]))
    /\ \A c \in Conns :
          (cause[c] = "observer_gone")
              ~> (pc[c] = "closed" /\ calls[c] = ExpectedCalls("closed") /\ released[c] = "Ok")

\* a session its observer ended has made its three drain calls, and the
\* notifier has counted its Connected and its Disconnected
C24_Witness ==
    \E c \in Conns :
        /\ cause[c] = "observer_gone"
        /\ pc[c] = "closed"
        /\ calls[c] = [unobserve |-> 1, release |-> 1, disconnected |-> 1]
        /\ released[c] = "Ok"
        /\ notifier = "running" /\ counter_queue = <<>> /\ connection_count = 0
        /\ \A d \in Conns \ {c} : pc[d] = "idle"

(***************************************************************************)
(* Claims about pings (LoopSpec)                                           *)
(***************************************************************************)
\* C25: a ping with payload xs that a session has read is followed, in the order
\* of what happened in its loop, by nothing but the one pong frame with payload
\* xs and then the next item from select: no backend call and no second pong
\* comes between; as long as the pong is in socket.send the session is Active;
\* the step in which the send returns Ok leaves the session Active, back in
\* select, and the backend as it was (a failed send ends the loop with an
\* error); and pongs are written for pings only.
C25_PingAnsweredOnce ==
    /\ [](\A c \in Conns :
             LET log == loop[c].log
             IN /\ \A i \in 1..Len(log) :
                      (log[i].kind = "handled" /\ log[i].what = "ping") =>
                         /\ i < Len(log) => log[i + 1] = Entry("sent", "pong", log[i].value)
                         /\ i + 1 < Len(log) => log[i + 2].kind = "handled"
                         /\ i = Len(log) =>
                               \/ /\ pc[c] = "active"
                                  /\ loop[c].at = "send"
                                  /\ loop[c].frame = Frame("pong", log[i].value)
                               \/ loop[c].at = "ended" /\ cause[c] = "error"
                /\ Len(Entries(log, "sent", "pong")) <= Len(Entries(log, "handled", "ping")))
    /\ [][\A c \in Conns :
             (loop[c].at = "send" /\ loop[c].frame.type = "pong" /\ loop'[c].at # "send") =>
                 \/ /\ socket'[c] = loop[c].frame
                    /\ pc'[c] = "active"
                    /\ loop'[c].at = "select"
                    /\ mpv' = mpv /\ observers' = observers /\ pool' = pool
                 \/ /\ socket'[c] = Frame("dropped", 0)
                    /\ cause'[c] = "error"
                    /\ loop'[c].log = loop[c].log]_vars

\* a session has answered a ping with payload 2 and then one with payload 1
C25_Witness ==
    /\ loop[FirstConn].log = <<Entry("handled", "ping", 2), Entry("sent", "pong", 2),
                               Entry("handled", "ping", 1), Entry("sent", "pong", 1)>>
    /\ pc[FirstConn] = "active"
    /\ loop[FirstConn].at = "select"

(***************************************************************************)
(* Claims about the status lines (NotifierSpec)                            *)
(***************************************************************************)
\* the notifier takes a ConnectionEvent from the channel in this step
ConnectionEventProcessed ==
    notifier = "running" /\ Len(counter_queue') < Len(counter_queue)

\* the notifier takes a property-change event from its event stream in this step
PropertyChangeProcessed ==
    /\ notifier = "running"
    /\ event_stream # <<>>
    /\ Head(event_stream) = "property_change"
    /\ event_stream' = Tail(event_stream)

\* the notifier has got through its start in this step
NotifierStarted == notifier = "starting" /\ notifier' = "running"

\* C26: the step in which the notifier finishes its start emits one status
\* line, with connection count 0 and the flag and title just fetched; every
\* step that processes a ConnectionEvent or a property-change event (of an
\* observed property or any other, whether or not it changes the view) emits
\* exactly one line; no other step emits; and the line last emitted is always
\* the full view: the current playing flag, title and connection count.
C26_EveryEventEmitsStatus ==
    /\ [][/\ NotifierStarted =>
               /\ status'.emissions = 1
               /\ status'.line = [conn |-> 0,
                                  play |-> IF mpv.pause THEN "[STOP]" ELSE "[PLAY]",
                                  song |-> mpv.media_title.val]
          /\ (ConnectionEventProcessed \/ PropertyChangeProcessed) =>
               status'.emissions = (status.emissions + 1) % EmissionModulus
          /\ status'.emissions # status.emissions =>
               (NotifierStarted \/ ConnectionEventProcessed \/ PropertyChangeProcessed)
          /\ status'.line # status.line => status'.emissions # status.emissions]_vars
    /\ [](/\ notifier = "starting" => (status.emissions = 0 /\ status.line = NoLine)
          /\ notifier = "running" =>
                status.line = [conn |-> connection_count,
                               play |-> IF status.playing THEN "[PLAY]" ELSE "[STOP]",
                               song |-> IF status.current_song.some
                                        THEN status.current_song.val ELSE ""])

\* the notifier has counted two connections, seen the title "b" and a pause,
\* and its last line shows all three
C26_Witness ==
    /\ notifier = "running"
    /\ status.line = [conn |-> 2, play |-> "[STOP]", song |-> "b"]
    /\ counter_queue = <<>>
    /\ event_stream = <<>>

(***************************************************************************)
(* Claims about concurrent PlaylistRemove commands (PlaylistSpec)          *)
(***************************************************************************)
\* the positions the commands executed so far named: one call each
NamedPositions ==
    UNION {{e.value : e \in {loop[c].log[i] : i \in 1..Len(loop[c].log)} \cap
                            {Entry(kind, "playlist_remove_id", position) :
                                kind \in {"call", "failed_call"}, position \in 0..MaxPosition}} :
           c \in Conns}

\* between two removals of one connection there was a removal of another
Interleaved(removals) ==
    \E i, j, k \in 1..Len(removals) :
        /\ i < j /\ j < k
        /\ removals[i].by = removals[k].by
        /\ removals[j].by # removals[i].by

\* C27: nothing serializes the commands of different sessions: while two
\* sessions each stand in a playlist_remove_id call of their command, either
\* call can return first, and a call that succeeds removes whatever entry is at
\* its index at that moment; as long as the removals made are those of one
\* session's command alone, each removed entry is the one whose position the
\* command named. (The witness is the execution the claim speaks of: the calls
\* of two commands interleave and an entry is removed that neither named.)
C27_RemovesNotSerialized ==
    /\ [](\A c, d \in Conns :
             (c # d /\ loop[c].at = "call" /\ loop[d].at = "call") =>
                 (ENABLED CallReturns(c) /\ ENABLED CallReturns(d)))
    /\ [][Len(mpv'.removals) > Len(mpv.removals) =>
             LET r == Last(mpv'.removals)
             IN /\ mpv'.removals = Append(mpv.removals, r)
                /\ r.index < Len(mpv.playlist)
                /\ r.entry = mpv.playlist[r.index + 1]
                /\ mpv'.playlist = Without(mpv.playlist, r.index)
                /\ Head(loop[r.by].pending) = [op |-> "playlist_remove_id", arg |-> r.index]]_vars
    /\ []((\A i \in 1..Len(mpv.removals) : mpv.removals[i].by = mpv.removals[1].by) =>
             \A i \in 1..Len(mpv.removals) : mpv.removals[i].entry = mpv.removals[i].index)

\* two commands have run to their end without a failed call; their removals
\* interleaved, and an entry was removed whose position neither command named
C27_Witness ==
    /\ \A c \in Conns : loop[c].at = "select"
    /\ \A c \in Conns : Entries(loop[c].log, "failed_call", "") = <<>>
    /\ Cardinality({c \in Conns : loop[c].log # <<>>}) = 2
    /\ Interleaved(mpv.removals)
    /\ \E i \in 1..Len(mpv.removals) : mpv.removals[i].entry \notin NamedPositions

(***************************************************************************)
(* Claims about the gap between snapshot and event stream (GapSpec)        *)
(***************************************************************************)
\* what the observer of connection c has last been told about pause: by the
\* latest event frame, or else by the initial_state frame
ObserverView(c) ==
    LET sent == Entries(loop[c].log, "sent", "event")
    IN IF sent = <<>> THEN loop[c].snapshot ELSE Last(sent).value

\* C28: a session that has not yet called get_event_stream has no event
\* waiting and has read none; a change of the watched property made while it
\* is in that state leaves nothing for it, and the stream it then obtains
\* starts empty: events emitted before are not replayed. (The witness is the
\* execution the claim speaks of: pause changed after the snapshot was read
\* and before the stream existed, and the session, now subscribed and in its
\* loop, has nothing to forward while its observer's view is stale.)
C28_NoEventFromBeforeTheStream ==
    /\ [](\A c \in Conns :
             loop[c].at = "none" => (loop[c].stream = <<>> /\ loop[c].log = <<>>))
    /\ [][\A c \in Conns :
             /\ (mpv'.pause # mpv.pause /\ loop[c].at = "none") =>
                    (loop'[c].stream = <<>> /\ loop'[c].log = <<>> /\ loop'[c].at = "none")
             /\ (loop[c].at = "none" /\ loop'[c].at # "none") =>
                    /\ loop'[c].at = "select"
                    /\ loop'[c].stream = <<>>
                    /\ loop'[c].log = <<>>]_vars
    /\ [](\A c \in Conns :
             (loop[c].log = <<>> /\ loop[c].snapshot # -1) =>
                 ObserverView(c) = loop[c].snapshot)

\* pause last changed when the session had read its snapshot and not yet sent
\* it; now the session is subscribed to pause and waits in its select with no
\* event on its stream and none read so far, the notifier observes pause as
\* well, and the backend's pause differs from what the observer was told
C28_Witness ==
    \E c \in Conns :
        /\ pc[c] = "active"
        /\ loop[c].at = "select"
        /\ loop[c].stream = <<>>
        /\ loop[c].log = <<>>
        /\ socket[c].type = "initial_state"
        /\ \E o \in observers : o.by = c /\ o.property = "pause"
        /\ notifier = "running"
        /\ loop[c].gap = "send_initial"
        /\ ObserverView(c) # PauseValue(mpv.pause)

(***************************************************************************)
(* Claims about a command in execution (LoopSpec)                          *)
(***************************************************************************)
CallKinds == {"call", "failed_call"}

\* the index of the last entry of the run of backend calls that follows entry i
RECURSIVE RunEnd(_, _)
RunEnd(log, i) ==
    IF i < Len(log) /\ log[i + 1].kind \in CallKinds THEN RunEnd(log, i + 1) ELSE i

\* the backend calls the command of the given type makes in LoopSpec
Planned(type) == BackendCalls(CHOOSE message \in LoopFrames : message.type = type)

\* any way of taking an item from select
SelectStep(c) ==
    \/ SelectWatch(c)
    \/ \E message \in LoopFrames : \E xs \in PingPayloads \cup {0} : SelectRecv(c, message, xs)
    \/ \E item \in LoopStreamItems : SelectEvent(c, item)

\* C29: while a session stands in a backend call of a command it is Active, the
\* call can return, and nothing else can happen in the session: select hands it
\* nothing (no command, frame, event or occupancy change), no send returns and
\* no drain step begins. In the order of what happened in the loop, a command is
\* followed directly by its backend calls, in the command's order, up to the
\* last of them or to the first that failed, and only then by the next item
\* from select or by the end of the loop: the calls of two commands of one
\* session never overlap.
C29_CommandRunsToCompletion ==
    /\ [](\A c \in Conns :
             loop[c].at = "call" =>
                /\ pc[c] = "active"
                /\ loop[c].pending # <<>>
                /\ ENABLED CallReturns(c)
                /\ ~ENABLED SelectStep(c)
                /\ ~ENABLED SendReturns(c)
                /\ ~ENABLED DrainStep(c))
    /\ [](\A c \in Conns :
             LET log == loop[c].log
             IN /\ \A i \in 1..Len(log) :
                      log[i].kind \in CallKinds =>
                         /\ i > 1
                         /\ \/ log[i - 1].kind = "call"
                            \/ log[i - 1].kind = "handled" /\ log[i - 1].what \in WSCommand
                /\ \A i \in 1..Len(log) :
                      (log[i].kind = "handled" /\ log[i].what \in WSCommand) =>
                         LET j == RunEnd(log, i)
                             run == SubSeq(log, i + 1, j)
                             planned == Planned(log[i].what)
                             failed == run # <<>> /\ Last(run).kind = "failed_call"
                         IN /\ Len(run) <= Len(planned)
                            /\ \A k \in 1..Len(run) :
                                  /\ run[k].what = planned[k].op
                                  /\ run[k].value = planned[k].arg
                                  /\ k < Len(run) => run[k].kind = "call"
                            /\ (j < Len(log) \/ loop[c].at # "call") =>
                                  (failed \/ Len(run) = Len(planned))
                            /\ (j = Len(log) /\ loop[c].at = "call") =>
                                  /\ ~failed
                                  /\ loop[c].pending = SubSeq(planned, Len(run) + 1, Len(planned)))

\* a session has run the three calls of a PlaylistRemove and then the call of
\* the next command
C29_Witness ==
    /\ loop[FirstConn].log =
          <<Entry("handled", "playlist_remove", 0),
            Entry("call", "playlist_remove_id", 3),
            Entry("call", "playlist_remove_id", 2),
            Entry("call", "playlist_remove_id", 0),
            Entry("handled", "toggle_playback", 0),
            Entry("call", "set_playback", 0)>>
    /\ loop[FirstConn].at = "select"
    /\ pc[FirstConn] = "active"

(***************************************************************************)
(* CrowdSpec: the server with the pool of main, when enough observers are  *)
(* connected for the next identity to be the status notifier's owner id    *)
(***************************************************************************)
\* IdPool::new_with_max_limit(1024)
IdPoolMaxLimit == 1024

\* the sessions that are connected, and stay so, when CrowdSpec starts: they
\* hold the identities below the notifier's owner id
Crowd == NotifierObserverId - 1

\* connection numbers of the crowd's sessions
CrowdConns == {NConns + d : d \in 1..Crowd}

\* the observers the status notifier registers
NotifierObservers ==
    {[id |-> NotifierObserverId, property |-> p, by |-> 0] : p \in {"media-title", "pause"}}

\* the pool of main after the request_id calls of the crowd, none released:
\* each call took the branch that increments id_count and ended with
\* update_watch
CrowdPool ==
    [new_with_max_limit(IdPoolMaxLimit) EXCEPT
        !.id_count = Crowd, !.watch = Crowd, !.version = Crowd]

\* the notifier runs and has counted the crowd; each session of the crowd has
\* made its default subscriptions; the pool has issued their identities
CrowdInit ==
    /\ pool = CrowdPool
    /\ hist = <<>>
    /\ mpv = IdleMpv
    /\ pc = [c \in Conns |-> "idle"]
    /\ channel_id = [c \in Conns |-> 0]
    /\ hs_fail = [c \in Conns |-> "none"]
    /\ initial_state = [c \in Conns |-> -1]
    /\ cause = [c \in Conns |-> "none"]
    /\ receiver = [c \in Conns |-> "none"]
    /\ socket = [c \in Conns |-> [type |-> "none", value |-> 0]]
    /\ observers = NotifierObservers \cup
                      UNION {Subscribed(d, Len(DEFAULT_PROPERTY_SUBSCRIPTIONS)) : d \in CrowdConns}
    /\ calls = [c \in Conns |-> [unobserve |-> 0, release |-> 0, disconnected |-> 0]]
    /\ released = [c \in Conns |-> "none"]
    /\ counter_queue = <<>>
    /\ connection_count = Crowd
    /\ notifier = "running"
    /\ event_stream = <<>>
    /\ event_branch = "enabled"
    /\ process = "running"
    /\ handled = [frame |-> NoMessage, result |-> "none", calls |-> <<>>]
    /\ loop = [c \in Conns |-> NoLoop]
    /\ status = Emit([playing |-> TRUE, current_song |-> None, line |-> NoLine,
                      emissions |-> 0], Crowd)

CrowdNext ==
    \/ \E c \in Conns :
          \/ websocket_handler(c)
          \/ on_upgrade(c)
          \/ SendConnected(c)
          \/ get_initial_state(c)
          \/ SendInitialState(c)
          \/ setup_default_subscribes(c)
          \/ CountChanged(c)
          \/ \E message \in InboundMessages : Recv(c, message)
          \/ \E item \in EventStreamItems : Event(c, item)
          \/ unobserve_property(c)
          \/ ReleaseChannelId(c)
          \/ SendDisconnected(c)
    \/ NotifierRecv

CrowdSpec == CrowdInit /\ [][CrowdNext]_vars

\* C30: the unobserve_property call of a session's drain removes only observers
\* that this session registered: the status notifier's observers on media-title
\* and pause and the observers of other sessions stay, whatever identity the
\* session holds, so that the running notifier keeps its two observers.
C30_DrainRemovesOnlyOwnObservers ==
    /\ [][\A c \in Conns :
             (pc[c] = "unobserve" /\ pc'[c] # "unobserve") =>
                /\ \A o \in observers \ observers' : o.by = c
                /\ NotifierObservers \cap observers \subseteq observers']_vars
    /\ [](notifier = "running" => NotifierObservers \subseteq observers)

(***************************************************************************)
(* Claims about what a closed session leaves behind                        *)
(***************************************************************************)
\* C31: once a session is Closed the backend holds no observer that the
\* session's handshake registered, so that when every session is closed only
\* the status notifier's observers are left.
C31_ClosedSessionLeavesNoObserver ==
    \A c \in Conns : pc[c] = "closed" => \A o \in observers : o.by # c

\* where a connection stands when no task of it is left: it has not arrived,
\* was rejected, its upgrade failed, its session closed, or its task panicked
Finished == {"idle", "rejected", "upgrade_failed", "closed", "panicked"}

\* C32: when no connection has a session that is handshaking, Active or
\* draining and the running status notifier has received every queued
\* connection event, its connection_count is 0: each Connected was matched by
\* the Disconnected of the same session, however the session ended.
C32_CountReturnsToZero ==
    (/\ \A c \in Conns : pc[c] \in Finished
     /\ counter_queue = <<>>
     /\ notifier = "running")
    => connection_count = 0

(***************************************************************************)
(* The pool under arbitrary calls (PoolSpec)                               *)
(***************************************************************************)
\* C33: whatever request_id / release_id calls are made, with any id: every
\* identity request_id returned lies in 1..max_id and was not in use when it
\* was returned, every member of free_ids lies in 1..id_count (it was issued
\* before), and id_count, the high-water mark, does not exceed max_id.
C33_PoolWellFormed ==
    /\ \A i \in 1..Len(hist) :
          (hist[i].op = "request_id" /\ hist[i].ret.tag = "Ok") =>
             /\ hist[i].ret.val \in 1..pool.max_id
             /\ hist[i].ret.val \notin InUseAfter(SubSeq(hist, 1, i - 1))
    /\ pool.free_ids \subseteq 1..pool.id_count
    /\ pool.id_count <= pool.max_id

(***************************************************************************)
(* RemoveSpec: one session executes one PlaylistRemove, nothing else       *)
(* touching the playlist                                                   *)
(***************************************************************************)
\* the PlaylistRemove commands whose positions all lie within a playlist of
\* n entries; a position may occur more than once
RemovesWithin(n) ==
    {message \in PlaylistRemoveFrames :
        \A i \in 1..Len(message.positions) : message.positions[i] < n}

\* the server after the handshake of its first connection, the playlist
\* holding up to PlaylistLen entries, each written as its position
RemoveInit ==
    /\ pool = request_id(new_with_max_limit(NConns), FALSE).pool
    /\ hist = <<>>
    /\ pc = [c \in Conns |-> IF c = FirstConn THEN "active" ELSE "idle"]
    /\ channel_id = [c \in Conns |-> IF c = FirstConn THEN 1 ELSE 0]
    /\ hs_fail = [c \in Conns |-> "none"]
    /\ initial_state = [c \in Conns |-> -1]
    /\ cause = [c \in Conns |-> "none"]
    /\ receiver = [c \in Conns |->
                     IF c = FirstConn THEN get_id_count_watch_receiver(pool) ELSE "none"]
    /\ socket = [c \in Conns |-> IF c = FirstConn THEN Frame("initial_state", id_count(pool))
                                 ELSE Frame("none", 0)]
    /\ observers = Subscribed(FirstConn, Len(DEFAULT_PROPERTY_SUBSCRIPTIONS))
    /\ calls = [c \in Conns |-> [unobserve |-> 0, release |-> 0, disconnected |-> 0]]
    /\ released = [c \in Conns |-> "none"]
    /\ counter_queue = <<"Connected">>
    /\ connection_count = 0
    /\ notifier = "starting"
    /\ event_stream = <<>>
    /\ event_branch = "enabled"
    /\ process = "running"
    /\ handled = [frame |-> NoMessage, result |-> "none", calls |-> <<>>]
    /\ \E n \in 0..PlaylistLen : mpv = [IdleMpv EXCEPT !.playlist = [i \in 1..n |-> i - 1]]
    /\ loop = [c \in Conns |-> IF c = FirstConn THEN [NoLoop EXCEPT !.at = "select"]
                               ELSE NoLoop]
    /\ status = [playing |-> FALSE, current_song |-> None, line |-> NoLine, emissions |-> 0]

RemoveNext ==
    \/ \E message \in RemovesWithin(Len(mpv.playlist)) : IssueRemove(FirstConn, message)
    \/ CallReturns(FirstConn)

RemoveSpec == RemoveInit /\ [][RemoveNext]_vars

\* the positions the playlist_remove_id calls of the log were made with
CalledPositions(log) ==
    {log[i].value : i \in {j \in 1..Len(log) : log[j].kind \in CallKinds}}

\* the entries of a playlist of n entries whose positions are not in named
Unnamed(n, named) == SelectSeq([i \in 1..n |-> i - 1], LAMBDA e : e \notin named)

\* the PlaylistRemove of the session has made all its calls and none failed
RemoveDone(c) ==
    /\ loop[c].log # <<>>
    /\ loop[c].at = "select"
    /\ \A i \in 1..Len(loop[c].log) : loop[c].log[i].kind # "failed_call"

\* C34: when a PlaylistRemove whose positions all lie within the playlist,
\* repeated positions included, has been executed with nothing else touching
\* the playlist, the playlist holds exactly the original entries whose
\* positions the command did not name, in their original order.
C34_RemovesExactlyTheNamed ==
    RemoveDone(FirstConn) =>
        mpv.playlist = Unnamed(Len(mpv.playlist) + Len(mpv.removals),
                               CalledPositions(loop[FirstConn].log))

(***************************************************************************)
(* Claims about the connection count in the server (Spec)                  *)
(***************************************************************************)
\* the sum of to_i8 over the first k events of a queue
RECURSIVE Net(_, _)
Net(queue, k) == IF k = 0 THEN 0 ELSE Net(queue, k - 1) + to_i8(queue[k])

\* the notifier receives the event at the head of its channel
Received(event) ==
    /\ notifier = "running"
    /\ counter_queue # <<>>
    /\ Head(counter_queue) = event
    /\ counter_queue' = Tail(counter_queue)

\* C35: in the server the status notifier never receives a Disconnected while
\* its connection_count is 0, so checked_add_signed never returns None: every
\* session sends its Connected before its Disconnected on the one FIFO channel,
\* so that after any number of the queued events the count is still >= 0, and
\* a Disconnected received subtracts exactly 1.
C35_NoDisconnectedAtZero ==
    /\ [](\A k \in 0..Len(counter_queue) : connection_count + Net(counter_queue, k) >= 0)
    /\ [][Received("Disconnected") =>
             (connection_count > 0 /\ connection_count' = connection_count - 1)]_vars
    /\ [][\A c \in Conns :
             (calls'[c].disconnected > calls[c].disconnected) =>
                (pc[c] = "notify" /\ pc'[c] = "closed" /\ cause[c] # "none")]_vars

\* every session has gone from Connected to Disconnected and the notifier has
\* received all of it: the count is back at 0
C35_Witness ==
    /\ \A c \in Conns : pc[c] = "closed" /\ calls[c].disconnected = 1
    /\ notifier = "running"
    /\ counter_queue = <<>>
    /\ connection_count = 0

(***************************************************************************)
(* Claims about the watch receiver a session obtains (Spec)                *)
(***************************************************************************)
\* C36: a session writes a connection_count frame only for a request_id or
\* release_id made after it obtained its watch receiver. While the only send on
\* the watch channel is the one of the session's own request_id, which came
\* before its receiver, an Active session has a receiver that reports no change
\* and has written no connection_count frame.
C36_NoFrameWithoutLaterChange ==
    \A c \in Conns :
        (pc[c] = "active" /\ pool.version = 1) =>
            /\ receiver[c] = "seen"
            /\ socket[c].type # "connection_count"

(***************************************************************************)
(* Claims about identities and the upgrade (Spec)                          *)
(***************************************************************************)
\* C37: an identity websocket_handler obtained is owned by a session: while it
\* is held, the upgrade is still under way or handle_connection has been
\* started for it, also when the upgrade does not complete; no connection holds
\* an identity with no task left that could release it.
C37_HeldIdentityHasSession ==
    \A c \in Conns : Holds(c) => pc[c] # "upgrade_failed"

(***************************************************************************)
(* ViewSpec: the status notifier's loop, its event stream holding the name *)
(* and data of each property-change event                                  *)
(***************************************************************************)
\* Event::PropertyChange { name, data, .. }
PropertyChangeEvent(name, data) == [name |-> name, data |-> data]

\* the backend emits a property-change event on the notifier's event stream
PropertyChangeEmitted(name, data) ==
    /\ process = "running"
    /\ notifier = "running"
    /\ Len(event_stream) < MaxPending
    /\ event_stream' = Append(event_stream, PropertyChangeEvent(name, data))
    /\ UNCHANGED <<pool, hist, pc, channel_id, hs_fail, initial_state, cause, receiver,
                   socket, observers, calls, released, counter_queue, connection_count,
                   notifier, event_branch, process, handled, tracevars, status>>

\* the notifier's select branch for a property-change event: the match on
\* (name, data), then send_play_status
NotifierPropertyChange ==
    /\ notifier = "running"
    /\ event_branch = "enabled"
    /\ event_stream # <<>>
    /\ event_stream' = Tail(event_stream)
    /\ LET event == Head(event_stream)
       IN status' = Emit(PropertyChange(status, event.name, event.data), connection_count)
    /\ UNCHANGED <<pool, hist, pc, channel_id, hs_fail, initial_state, cause, receiver,
                   socket, observers, calls, released, counter_queue, connection_count,
                   notifier, event_branch, process, handled, tracevars>>

ViewNext ==
    \/ NotifierStart
    \/ NotifierRecv
    \/ NotifierPropertyChange
    \/ MainSelect
    \/ \E event \in {"Connected", "Disconnected"} : ConnectionEventSent(event)
    \/ \E name \in PropertyNames, data \in PropertyData : PropertyChangeEmitted(name, data)

ViewSpec == NotifierInit /\ [][ViewNext]_vars

\* the notifier takes the property-change event at the head of its stream
PropertyChangeRead ==
    /\ notifier = "running"
    /\ event_stream # <<>>
    /\ event_stream' = Tail(event_stream)

\* C38: a ConnectionEvent the notifier receives changes connection_count (by
\* +1 or -1, staying at 0 below 0) and neither playing nor current_song; a
\* property-change event leaves connection_count alone and changes only the
\* field it names: pause with a Bool sets playing to its negation, media-title
\* with a String sets current_song to it and with no data clears it; with any
\* other name or data it changes neither field; and after either kind of
\* event the notifier is still running.
C38_EventsChangeOnlyTheirField ==
    [][/\ ConnectionEventProcessed =>
            /\ status'.playing = status.playing
            /\ status'.current_song = status.current_song
            /\ connection_count' =
                  IF Head(counter_queue) = "Connected" THEN connection_count + 1
                  ELSE IF connection_count = 0 THEN 0 ELSE connection_count - 1
            /\ notifier' = "running"
       /\ PropertyChangeRead =>
            LET name == Head(event_stream).name
                data == Head(event_stream).data
            IN /\ connection_count' = connection_count
               /\ notifier' = "running"
               /\ process' = "running"
               /\ status'.playing =
                     IF name = "pause" /\ data.type = "Bool" THEN ~data.bool
                     ELSE status.playing
               /\ status'.current_song =
                     IF name = "media-title" /\ data.type = "String" THEN Some(data.string)
                     ELSE IF name = "media-title" /\ data.type = "None" THEN None
                     ELSE status.current_song]_vars

\* the notifier has counted a connection and read a pause and the title "b"
C38_Witness ==
    /\ notifier = "running"
    /\ connection_count = 1
    /\ ~status.playing
    /\ status.current_song = Some("b")
    /\ status.emissions = 1
    /\ event_stream = <<>>
    /\ counter_queue = <<>>

====
